---------------------------- MODULE Spec2Model ----------------------------
(***************************************************************************)
(* A model of the episode recorder (backend/utils/episode_logger.py, with  *)
(* its endpoints in backend/api/episodes.py) and of the simplified PPO     *)
(* trainer (backend/agents/ppo_trainer.py).                                *)
(*                                                                         *)
(* Python values are modelled as follows.  An Optional value is a sequence *)
(* of length 0 (None) or 1 (the value).  A dict is a set of <<key, value>> *)
(* pairs.  A datetime is a natural number of clock ticks, UsecPerSec ticks *)
(* to the second; isoformat() renders it as <<seconds>> when the           *)
(* sub-second part is zero and as <<seconds, ticks>> otherwise, as Python  *)
(* drops ".ffffff" for a zero microsecond.  A frame's timestamp is the      *)
(* number of the log_frame call that made it, which tells frames apart.    *)
(* gamma is the exact fraction 99/100: float rounding is not modelled.     *)
(***************************************************************************)
EXTENDS Integers, Sequences, FiniteSets, TLC

\* ------------------------------------------------------------------ bounds

\* Episodes that can be started (uuid4 values handed out).
MaxEpisodes == 2

\* log_frame calls that succeed, over the whole run.
MaxFrames == 2

\* The wall clock runs from 0 to MaxClock ticks.
MaxClock == 1

\* Clock ticks per second (the resolution of datetime below the second).
UsecPerSec == 2

\* Frames at most in an episode file an earlier run left in storage_dir.
StoredFrames == 4

\* ---------------------------------------------------------- Python values

NoneV == <<>>

Some(x) == <<x>>

IsNone(o) == o = <<>>

EmptyDict == {}

\* `value or default` of Python for an Optional[Dict]: None and {} are falsy.
OrDict(o) == IF IsNone(o) \/ o[1] = EmptyDict THEN EmptyDict ELSE o[1]

\* `value or []` of Python for an Optional[List]: None and [] are falsy.
OrList(o) == IF IsNone(o) \/ o[1] = <<>> THEN <<>> ELSE o[1]

\* d[key] = value on a dict.
DictSet(d, key, value) == {p \in d : p[1] # key} \cup {<<key, value>>}

\* datetime.isoformat(): the microsecond part is left out when it is zero.
isoformat(t) ==
    IF t % UsecPerSec = 0 THEN <<t \div UsecPerSec>>
    ELSE <<t \div UsecPerSec, t % UsecPerSec>>

\* datetime.fromisoformat(), the inverse reading of an isoformat string.
fromisoformat(s) ==
    s[1] * UsecPerSec + (IF Len(s) > 1 THEN s[2] ELSE 0)

Min(a, b) == IF a < b THEN a ELSE b

Max(a, b) == IF a > b THEN a ELSE b

\* dict.get(key, default), the value being None when the key is absent
GetOr(value, default) == IF IsNone(value) THEN default ELSE value[1]

\* ------------------------------------------------------------------ state

VARIABLES
    current_episode,  \* EpisodeLogger.current_episode: Optional[Episode]
    storage,          \* the files of storage_dir: episode id -> Optional[file]
    now,              \* the wall clock read by datetime.now()
    uuids,            \* number of uuid4 values handed out so far
    nframes,          \* number of frames logged so far (the next frame's timestamp)
    rec_ret,          \* what the last recorder call returned or raised
    started,          \* history: the id the last start_episode returned (0: none)
    logged,           \* history: the timestamps of the frames logged since the
                      \* last start_episode, in the order logged
    discarded         \* history: timestamps of frames of unfinalized episodes
                      \* dropped by start_episode

rec_vars == <<current_episode, storage, now, uuids, nframes, rec_ret, started,
              logged, discarded>>

EpisodeIds == 1..MaxEpisodes

\* Inputs of start_episode: metadata is None or {}.
MetadataInputs == {NoneV, Some(EmptyDict)}

\* Inputs of the /start endpoint: a request with or without a name.
StartEpisodeRequests ==
    [name : {NoneV, Some(""), Some("a")},
     metadata : {NoneV, Some(EmptyDict)}]

\* Inputs of log_frame: events is None or [].
EventsInputs == {NoneV, Some(<<>>)}

WorldStates == {"w"}

\* ------------------------------------------------------------ EpisodeFrame

\* EpisodeFrame.__init__
EpisodeFrame(timestamp, agents_state, world_state, events) ==
    [timestamp |-> timestamp, agents_state |-> agents_state,
     world_state |-> world_state, events |-> OrList(events)]

\* EpisodeFrame.to_dict
frame_to_dict(frame) ==
    [timestamp |-> frame.timestamp, agents_state |-> frame.agents_state,
     world_state |-> frame.world_state, events |-> frame.events]

\* ----------------------------------------------------------------- Episode

\* Episode.__init__ with episode_id = None: a fresh uuid4, the clock read.
Episode(episode_id, metadata, t) ==
    [episode_id |-> episode_id, metadata |-> OrDict(metadata),
     frames |-> <<>>, start_time |-> t, end_time |-> NoneV]

\* add_frame with the frame put first instead of last.
add_frame_front(ep, frame) == [ep EXCEPT !.frames = <<frame>> \o @]

\* Episode.add_frame
add_frame(ep, frame) == [ep EXCEPT !.frames = Append(@, frame)]

\* Episode.finalize
finalize(ep, t) == [ep EXCEPT !.end_time = Some(t)]

\* Episode.to_dict
to_dict(ep) ==
    [episode_id |-> ep.episode_id,
     metadata |-> ep.metadata,
     start_time |-> isoformat(ep.start_time),
     end_time |-> IF IsNone(ep.end_time) THEN NoneV
                  ELSE Some(isoformat(ep.end_time[1])),
     num_frames |-> Len(ep.frames),
     frames |-> [i \in 1..Len(ep.frames) |-> frame_to_dict(ep.frames[i])]]

\* Episode.get_summary; duration is in clock ticks.
get_summary(ep) ==
    [episode_id |-> ep.episode_id,
     metadata |-> ep.metadata,
     start_time |-> isoformat(ep.start_time),
     end_time |-> IF IsNone(ep.end_time) THEN NoneV
                  ELSE Some(isoformat(ep.end_time[1])),
     num_frames |-> Len(ep.frames),
     duration |-> IF IsNone(ep.end_time) THEN 0
                  ELSE ep.end_time[1] - ep.start_time]

\* ------------------------------------------------------------ storage_dir

\* A file that json.dump wrote in full.
WholeFile(doc) == [complete |-> TRUE, data |-> doc]

\* A file that json.dump left part-way: the document is cut after k frames.
PartFile(doc, k) ==
    [complete |-> FALSE, data |-> [doc EXCEPT !.frames = SubSeq(@, 1, k)]]

\* ----------------------------------------------------------- return values

\* A call that returned: data is the list a read returned, or the one
\* document load_episode returned, and empty for the other calls; args
\* are the arguments a read was called with.
Returned(op, id, summary) ==
    [op |-> op, kind |-> "ok", id |-> id, summary |-> summary, data |-> <<>>,
     args |-> <<>>]

ReturnedData(op, data) ==
    [op |-> op, kind |-> "ok", id |-> 0, summary |-> NoneV, data |-> data,
     args |-> <<>>]

Raised(op, kind) ==
    [op |-> op, kind |-> kind, id |-> 0, summary |-> NoneV, data |-> <<>>,
     args |-> <<>>]

\* The return value ret of a read called with args.
CalledWith(ret, args) == [ret EXCEPT !.args = args]

\* ------------------------------------------------------------------- Init

InitRec ==
    /\ current_episode = NoneV
    /\ storage = [id \in EpisodeIds |-> NoneV]
    /\ now = 0
    /\ uuids = 0
    /\ nframes = 0
    /\ rec_ret = Raised("init", "none")
    /\ started = 0
    /\ logged = <<>>
    /\ discarded = {}

\* The id of the episode an earlier run of the program recorded.
EarlierId == 0

\* The ids of the files storage_dir can hold.
StoredIds == {EarlierId} \cup EpisodeIds

\* The document an earlier run of the program wrote for an episode of n
\* frames, logged before this run's first frame.
earlier_episode(episode_id, n) ==
    to_dict(finalize(
        [Episode(episode_id, NoneV, 0) EXCEPT
            !.frames = [i \in 1..n |->
                           EpisodeFrame(i - n - 1, <<>>, "w", NoneV)]],
        0))

\* EpisodeLogger.__init__ on a storage_dir that holds the files stored:
\* mkdir(exist_ok=True) keeps what is there.
StoreWith(stored) ==
    /\ current_episode = NoneV
    /\ storage = stored
    /\ uuids = 0
    /\ now = 0
    /\ nframes = 0
    /\ rec_ret = Raised("init", "none")
    /\ started = 0
    /\ logged = <<>>
    /\ discarded = {}

\* A storage_dir with the file of one earlier episode of n frames.
EarlierDir(n) ==
    [id \in StoredIds |->
        IF id = EarlierId THEN Some(WholeFile(earlier_episode(id, n)))
        ELSE NoneV]

\* ----------------------------------------------------------- EpisodeLogger

\* start_episode that saves the episode it replaces instead of dropping it.
start_episode_autosave(metadata) ==
    /\ uuids < MaxEpisodes
    /\ uuids' = uuids + 1
    /\ current_episode' = Some(Episode(uuids + 1, metadata, now))
    /\ rec_ret' = Returned("start_episode", uuids + 1, NoneV)
    /\ started' = uuids + 1
    /\ logged' = <<>>
    /\ discarded' =
         IF ~IsNone(current_episode) /\ IsNone(current_episode[1].end_time)
         THEN discarded \cup
              {current_episode[1].frames[i].timestamp :
                  i \in 1..Len(current_episode[1].frames)}
         ELSE discarded
    /\ storage' =
         IF IsNone(current_episode) THEN storage
         ELSE [storage EXCEPT ![current_episode[1].episode_id] =
                 Some(WholeFile(to_dict(current_episode[1])))]
    /\ UNCHANGED <<now, nframes>>

\* EpisodeLogger.start_episode
start_episode(metadata) ==
    /\ uuids < MaxEpisodes
    /\ uuids' = uuids + 1
    /\ current_episode' = Some(Episode(uuids + 1, metadata, now))
    /\ rec_ret' = Returned("start_episode", uuids + 1, NoneV)
    /\ started' = uuids + 1
    /\ logged' = <<>>
    /\ discarded' =
         IF ~IsNone(current_episode) /\ IsNone(current_episode[1].end_time)
         THEN discarded \cup
              {current_episode[1].frames[i].timestamp :
                  i \in 1..Len(current_episode[1].frames)}
         ELSE discarded
    /\ UNCHANGED <<storage, now, nframes>>

\* log_frame that opens an episode when there is none instead of raising.
log_frame_autostart(agents_state, world_state, events) ==
    /\ nframes < MaxFrames
    /\ LET ep == IF IsNone(current_episode) THEN Episode(0, NoneV, now)
                 ELSE current_episode[1]
           frame == EpisodeFrame(nframes + 1, agents_state, world_state,
                                 events)
       IN /\ current_episode' = Some(add_frame(ep, frame))
          /\ logged' = Append(logged, frame.timestamp)
    /\ nframes' = nframes + 1
    /\ rec_ret' = Returned("log_frame", 0, NoneV)
    /\ UNCHANGED <<storage, now, uuids, started, discarded>>

\* EpisodeLogger.log_frame
log_frame(agents_state, world_state, events) ==
    IF IsNone(current_episode)
    THEN /\ rec_ret' = Raised("log_frame", "ValueError")
         /\ UNCHANGED <<current_episode, storage, now, uuids, nframes, started,
                        logged, discarded>>
    ELSE /\ nframes < MaxFrames
         /\ LET frame == EpisodeFrame(nframes + 1, agents_state, world_state,
                                      events)
            IN /\ current_episode' = Some(add_frame(current_episode[1], frame))
               /\ logged' = Append(logged, frame.timestamp)
         /\ nframes' = nframes + 1
         /\ rec_ret' = Returned("log_frame", 0, NoneV)
         /\ UNCHANGED <<storage, now, uuids, started, discarded>>

\* end_episode that, with no episode, rewrites the file of the last one
\* as an empty document before raising.
end_episode_idle_write ==
    /\ IsNone(current_episode)
    /\ started # 0
    /\ storage' = [storage EXCEPT
                     ![started] = Some(WholeFile(to_dict(
                                     Episode(started, NoneV, now))))]
    /\ rec_ret' = Raised("end_episode", "ValueError")
    /\ UNCHANGED <<current_episode, now, uuids, nframes, started, logged,
                   discarded>>

\* EpisodeLogger.end_episode with no current episode: it raises.
end_episode_idle ==
    /\ rec_ret' = Raised("end_episode", "ValueError")
    /\ UNCHANGED <<current_episode, storage, now, uuids, nframes, started,
                   logged, discarded>>

\* EpisodeLogger.end_episode.  The write ends in one of three ways: open()
\* raises and the file is untouched; json.dump raises part-way and the file
\* holds a cut document; or the document is written in full.
end_episode ==
    IF IsNone(current_episode)
    THEN end_episode_idle
    ELSE LET ep == finalize(current_episode[1], now)
             id == ep.episode_id
         IN /\ \/ /\ storage' = storage
                  /\ current_episode' = Some(ep)
                  /\ rec_ret' = Raised("end_episode", "OSError")
               \/ /\ \E k \in 0..Len(ep.frames) :
                        storage' = [storage EXCEPT
                                      ![id] = Some(PartFile(to_dict(ep), k))]
                  /\ current_episode' = Some(ep)
                  /\ rec_ret' = Raised("end_episode", "OSError")
               \/ /\ storage' = [storage EXCEPT
                                   ![id] = Some(WholeFile(to_dict(ep)))]
                  /\ current_episode' = NoneV
                  /\ rec_ret' = Returned("end_episode", 0,
                                         Some(get_summary(ep)))
            /\ UNCHANGED <<now, uuids, nframes, started, logged, discarded>>

\* An unlink that takes every file of the directory away.
unlink_all(files, episode_id) == [id \in DOMAIN files |-> NoneV]

\* if episode_path.exists(): episode_path.unlink()
unlink(files, episode_id) == [files EXCEPT ![episode_id] = NoneV]

\* EpisodeLogger.delete_episode
delete_episode(episode_id) ==
    /\ storage' = unlink(storage, episode_id)
    /\ rec_ret' = CalledWith(Returned("delete_episode", 0, NoneV),
                             <<episode_id>>)
    /\ UNCHANGED <<current_episode, now, uuids, nframes, started, logged,
                   discarded>>

\* json.load of a file: the document json.dump wrote when it wrote all of
\* it (strings, numbers, lists, dicts and None come back as they were),
\* and JSONDecodeError (None here) for a file cut part-way.
json_load(file) == IF file.complete THEN Some(file.data) ELSE NoneV

\* load_episode that goes on to open a file that is not there.
loaded_unchecked(op, episode_id) ==
    IF IsNone(storage[episode_id]) \/ IsNone(json_load(storage[episode_id][1]))
    THEN Raised(op, "JSONDecodeError")
    ELSE ReturnedData(op, json_load(storage[episode_id][1]))

\* What load_episode returns or raises, under the name op of the caller.
loaded(op, episode_id) ==
    IF IsNone(storage[episode_id]) THEN Raised(op, "FileNotFoundError")
    ELSE IF IsNone(json_load(storage[episode_id][1]))
         THEN Raised(op, "JSONDecodeError")
         ELSE ReturnedData(op, json_load(storage[episode_id][1]))

\* EpisodeLogger.load_episode
load_episode(episode_id) ==
    /\ rec_ret' = CalledWith(loaded("load_episode", episode_id),
                             <<episode_id>>)
    /\ UNCHANGED <<current_episode, storage, now, uuids, nframes, started,
                   logged, discarded>>

\* A Python index of a slice, clamped to a list of n entries.
slice_index(i, n) == IF i < 0 THEN Max(n + i, 0) ELSE Min(i, n)

\* seq[start:] whatever end_frame is.
py_slice_to_end(seq, start, end) ==
    SubSeq(seq, slice_index(start, Len(seq)) + 1, Len(seq))

\* seq[start:end]
py_slice(seq, start, end) ==
    SubSeq(seq, slice_index(start, Len(seq)) + 1, slice_index(end, Len(seq)))

\* EpisodeLogger.get_episode_frames
get_episode_frames(episode_id, start_frame, end_frame) ==
    LET episode_data == loaded("get_episode_frames", episode_id)
    IN /\ rec_ret' =
             CalledWith(
                 IF episode_data.kind # "ok" THEN episode_data
                 ELSE LET frames == episode_data.data[1].frames
                      IN ReturnedData("get_episode_frames",
                                      py_slice(frames, start_frame,
                                               GetOr(end_frame, Len(frames)))),
                 <<episode_id, start_frame, end_frame>>)
       /\ UNCHANGED <<current_episode, storage, now, uuids, nframes, started,
                      logged, discarded>>

\* str.__lt__ on two isoformat strings: the first differing part decides,
\* and a string is less than any it is a proper start of.
RECURSIVE iso_less(_, _)
iso_less(a, b) ==
    IF b = <<>> THEN FALSE
    ELSE IF a = <<>> THEN TRUE
    ELSE IF Head(a) # Head(b) THEN Head(a) < Head(b)
    ELSE iso_less(Tail(a), Tail(b))

\* The entry list_episodes makes of a document.
list_entry(data) ==
    [episode_id |-> data.episode_id, metadata |-> data.metadata,
     start_time |-> data.start_time, end_time |-> data.end_time,
     num_frames |-> data.num_frames]

\* The loop of list_episodes over the files in the order glob gives them:
\* an entry for each file that json.load reads, none for the others.
RECURSIVE list_entries(_)
list_entries(files) ==
    IF files = <<>> THEN <<>>
    ELSE LET data == json_load(Head(files))
             rest == list_entries(Tail(files))
         IN IF IsNone(data) THEN rest ELSE <<list_entry(data[1])>> \o rest

\* The comparison of the keys turned round.
key_less_reversed(a, b) == iso_less(b.start_time, a.start_time)

\* key(a) < key(b) for the key of the sort, x["start_time"].
key_less(a, b) == iso_less(a.start_time, b.start_time)

\* The place list.sort(reverse=True) gives entry x among the sorted
\* entries: behind all that start at its time or later.
RECURSIVE insert_newest_first(_, _)
insert_newest_first(sorted, x) ==
    IF sorted = <<>> THEN <<x>>
    ELSE IF key_less(Head(sorted), x)
         THEN <<x>> \o sorted
         ELSE <<Head(sorted)>> \o insert_newest_first(Tail(sorted), x)

\* episodes.sort(key=lambda x: x["start_time"], reverse=True)
RECURSIVE sort_newest_first(_)
sort_newest_first(entries) ==
    IF entries = <<>> THEN <<>>
    ELSE insert_newest_first(
             sort_newest_first(SubSeq(entries, 1, Len(entries) - 1)),
             entries[Len(entries)])

\* The orders in which glob may give the files of storage_dir.
GlobOrders ==
    LET present == {id \in DOMAIN storage : ~IsNone(storage[id])}
    IN {order \in [1..Cardinality(present) -> present] :
           \A i, j \in DOMAIN order : i # j => order[i] # order[j]}

\* EpisodeLogger.list_episodes
list_episodes ==
    /\ \E order \in GlobOrders :
          rec_ret' =
             ReturnedData("list_episodes",
                          sort_newest_first(list_entries(
                              [i \in DOMAIN order |-> storage[order[i]][1]])))
    /\ UNCHANGED <<current_episode, storage, now, uuids, nframes, started,
                   logged, discarded>>

\* The start and end arguments given to get_episode_frames.
FrameArgs == 0..StoredFrames

\* ---------------------------------------------------------- api/episodes.py

\* POST /start: builds the metadata and calls episode_logger.start_episode.
\* The handler has no await, so it runs to its end before another request.
api_start_episode(request) ==
    LET metadata == OrDict(request.metadata)
        named == IF ~IsNone(request.name) /\ request.name[1] # ""
                 THEN DictSet(metadata, "name", request.name[1])
                 ELSE metadata
    IN start_episode(Some(named))

\* The wall clock moves on between calls; it is taken not to run backwards.
Tick ==
    /\ now < MaxClock
    /\ now' = now + 1
    /\ UNCHANGED <<current_episode, storage, uuids, nframes, rec_ret, started,
                   logged, discarded>>

\* ================================================================ trainer

\* ------------------------------------------------------------------ bounds

\* Transitions the buffer holds at most.
MaxBuffer == 11

\* Optimizer steps applied to the network at most, over the whole run.
MaxOptSteps == 8

\* Transitions the buffer holds at most where returns are computed.
MaxReturnsLen == 4

\* ------------------------------------------------------- program constants

\* update() does nothing on fewer transitions than this.
MinBatch == 10

\* The optimization passes of one update().
Epochs == 4

\* gamma = 0.99, as the fraction GammaNum / GammaDen.
GammaNum == 99

GammaDen == 100

\* ------------------------------------------------------------------ state

VARIABLES
    buffer,           \* PPOTrainer.buffer: the six lists by key
    training_steps,   \* PPOTrainer.training_steps
    params,           \* the network's state: the optimizer steps that shaped it
    opt_state,        \* the optimizer's state: the steps it has taken
    returns,          \* compute_returns' list before it is normalized
    checkpoints,      \* the checkpoint file under each path, None when missing
    selected,         \* what the last select_action returned, None before
    tr_ret            \* what the last trainer call returned or raised

\* What only the checkpoint calls and select_action write.
ck_vars == <<checkpoints, selected>>

tr_vars == <<buffer, training_steps, params, opt_state, returns, checkpoints,
             selected, tr_ret>>

\* The paths checkpoints are written to and read from.
Paths == {"ckpt"}

BufferKeys ==
    {"observations", "actions", "rewards", "values", "log_probs", "dones"}

\* Inputs of store_transition where update() is exercised; step_agent, its one
\* caller, always passes done = False.
Rewards == {0, 1}

\* Inputs of store_transition where compute_returns is exercised.
ReturnRewards == {-1, 0, 2}

ZeroMetrics == [keys |-> {"loss"}, loss |-> "0.0"]

TrainedMetrics ==
    [keys |-> {"loss", "policy_loss", "value_loss", "mean_return"},
     loss |-> "loss.item()"]

TrReturned(op, metrics) ==
    [op |-> op, kind |-> "ok", metrics |-> metrics, pass |-> 0]

TrRaised(op, pass) ==
    [op |-> op, kind |-> "raised", metrics |-> NoneV, pass |-> pass]

\* PPOTrainer.__init__
InitTrainer ==
    /\ buffer = [k \in BufferKeys |-> <<>>]
    /\ training_steps = 0
    /\ params = 0
    /\ opt_state = 0
    /\ returns = <<>>
    /\ checkpoints = [path \in Paths |-> NoneV]
    /\ selected = NoneV
    /\ tr_ret = [op |-> "init", kind |-> "ok", metrics |-> NoneV, pass |-> 0]

\* ------------------------------------------------------- exact fractions

RECURSIVE Pow(_, _)
Pow(b, e) == IF e = 0 THEN 1 ELSE b * Pow(b, e - 1)

\* A return is the fraction q[1] / GammaDen^q[2], kept in lowest exponent.
RECURSIVE Canon(_)
Canon(q) ==
    IF q[2] > 0 /\ q[1] % GammaDen = 0
    THEN Canon(<<q[1] \div GammaDen, q[2] - 1>>)
    ELSE q

\* gamma * R
MulGamma(q) == Canon(<<GammaNum * q[1], q[2] + 1>>)

\* reward + q, for an integer reward
AddReward(reward, q) == Canon(<<reward * Pow(GammaDen, q[2]) + q[1], q[2]>>)

Zero == <<0, 0>>

\* -------------------------------------------------------------- PPOTrainer

\* store_transition that forgets the log_probs list.
store_transition_skip(observation, action, reward, value, log_prob, done) ==
    /\ buffer' = [buffer EXCEPT
                    !["observations"] = Append(@, observation),
                    !["actions"] = Append(@, action),
                    !["rewards"] = Append(@, reward),
                    !["values"] = Append(@, value),
                    !["dones"] = Append(@, done)]
    /\ tr_ret' = TrReturned("store_transition", NoneV)
    /\ UNCHANGED <<training_steps, params, opt_state, returns, ck_vars>>

\* PPOTrainer.store_transition
store_transition(observation, action, reward, value, log_prob, done) ==
    /\ buffer' = [buffer EXCEPT
                    !["observations"] = Append(@, observation),
                    !["actions"] = Append(@, action),
                    !["rewards"] = Append(@, reward),
                    !["values"] = Append(@, value),
                    !["log_probs"] = Append(@, log_prob),
                    !["dones"] = Append(@, done)]
    /\ tr_ret' = TrReturned("store_transition", NoneV)
    /\ UNCHANGED <<training_steps, params, opt_state, returns, ck_vars>>

\* zip(reversed(rewards), reversed(dones)): pairs from the back, as many as
\* the shorter list has.
ReversedZip(rewards, dones) ==
    LET n == IF Len(rewards) < Len(dones) THEN Len(rewards) ELSE Len(dones)
    IN [i \in 1..n |-> <<rewards[Len(rewards) + 1 - i],
                         dones[Len(dones) + 1 - i]>>]

\* The running return that forgets to restart at a done entry.
NextReturn_noreset(R, reward, done) == AddReward(reward, MulGamma(R))

\* One turn of compute_returns' loop: the running return after an entry.
NextReturn(R, reward, done) ==
    AddReward(reward, MulGamma(IF done THEN Zero ELSE R))

\* compute_returns' loop over the first i pairs: <<R, returns>>.
RECURSIVE ReturnsLoop(_, _)
ReturnsLoop(pairs, i) ==
    IF i = 0 THEN <<Zero, <<>>>>
    ELSE LET before == ReturnsLoop(pairs, i - 1)
             R == NextReturn(before[1], pairs[i][1], pairs[i][2])
         IN <<R, <<R>> \o before[2]>>

\* PPOTrainer.compute_returns, up to the normalization.
compute_returns ==
    /\ returns' =
         LET pairs == ReversedZip(buffer["rewards"], buffer["dones"])
         IN ReturnsLoop(pairs, Len(pairs))[2]
    /\ tr_ret' = TrReturned("compute_returns", NoneV)
    /\ UNCHANGED <<buffer, training_steps, params, opt_state, ck_vars>>

\* PPOTrainer.clear_buffer, as a function of the buffer.
clear_buffer(buf) == [k \in BufferKeys |-> <<>>]

\* The threshold test with <= for <.
below_threshold_le(buf) == Len(buf["observations"]) <= MinBatch

\* update()'s test for too few transitions.
below_threshold(buf) == Len(buf["observations"]) < MinBatch

\* update() that counts a training step for every pass.
update_trained_per_pass ==
    /\ params' = params + Epochs
    /\ opt_state' = opt_state + Epochs
    /\ training_steps' = training_steps + Epochs
    /\ buffer' = clear_buffer(buffer)
    /\ tr_ret' = TrReturned("update", Some(TrainedMetrics))
    /\ UNCHANGED <<returns, ck_vars>>

\* update() on enough transitions, all passes done: four optimizer steps,
\* one training step counted, the buffer cleared.
update_trained ==
    /\ params' = params + Epochs
    /\ opt_state' = opt_state + Epochs
    /\ training_steps' = training_steps + 1
    /\ buffer' = clear_buffer(buffer)
    /\ tr_ret' = TrReturned("update", Some(TrainedMetrics))
    /\ UNCHANGED <<returns, ck_vars>>

\* update() that clears the buffer before its passes.
update_raises_cleared(pass) ==
    /\ params' = params + (pass - 1)
    /\ opt_state' = opt_state + (pass - 1)
    /\ buffer' = clear_buffer(buffer)
    /\ tr_ret' = TrRaised("update", pass)
    /\ UNCHANGED <<training_steps, returns, ck_vars>>

\* update() on enough transitions, a pass raises: the passes before it have
\* stepped the optimizer, and nothing after the loop runs.
update_raises(pass) ==
    /\ params' = params + (pass - 1)
    /\ opt_state' = opt_state + (pass - 1)
    /\ tr_ret' = TrRaised("update", pass)
    /\ UNCHANGED <<buffer, training_steps, returns, ck_vars>>

\* PPOTrainer.update
update ==
    IF below_threshold(buffer)
    THEN /\ tr_ret' = TrReturned("update", Some(ZeroMetrics))
         /\ UNCHANGED <<buffer, training_steps, params, opt_state, returns,
                        ck_vars>>
    ELSE /\ params + Epochs <= MaxOptSteps
         /\ \/ update_trained
            \/ \E pass \in 1..Epochs : update_raises(pass)

\* PPOTrainer.clear_buffer
do_clear_buffer ==
    /\ buffer' = clear_buffer(buffer)
    /\ tr_ret' = TrReturned("clear_buffer", NoneV)
    /\ UNCHANGED <<training_steps, params, opt_state, returns, ck_vars>>

\* ------------------------------------------------------------ checkpoints

\* A state dict in a file: the state it holds, and whether it fits this
\* trainer's network (its keys and shapes) or optimizer (its parameter groups).
StateDict(value, fits) == [value |-> value, fits |-> fits]

\* A checkpoint file: unreadable to torch.load, or a dict whose three keys
\* are each present or absent.
CheckpointFile(readable, network_state, optimizer_state, steps) ==
    [readable |-> readable, network_state |-> network_state,
     optimizer_state |-> optimizer_state, training_steps |-> steps]

\* What a torch.save that fails leaves behind: a file cut short.
CutFile == CheckpointFile(FALSE, NoneV, NoneV, NoneV)

\* Files that something other than this trainer leaves under a path:
\* checkpoints of another run, of another network, or with keys missing.
ForeignFiles ==
    {CutFile} \cup
    {CheckpointFile(TRUE, n, o, t) :
        n \in {NoneV} \cup {Some(StateDict(Epochs, f)) : f \in BOOLEAN},
        o \in {NoneV} \cup {Some(StateDict(Epochs, f)) : f \in BOOLEAN},
        t \in {NoneV, Some(1)}}

\* A file appears under a path from outside the trainer.
put_checkpoint(path, file) ==
    /\ checkpoints' = [checkpoints EXCEPT ![path] = Some(file)]
    /\ UNCHANGED <<buffer, training_steps, params, opt_state, returns,
                   selected, tr_ret>>

\* PPOTrainer.save_checkpoint: torch.save writes the three keys, or fails
\* before the file exists or with the file cut short.
save_checkpoint(path) ==
    /\ \/ /\ checkpoints' =
               [checkpoints EXCEPT ![path] =
                  Some(CheckpointFile(TRUE, Some(StateDict(params, TRUE)),
                                      Some(StateDict(opt_state, TRUE)),
                                      Some(training_steps)))]
          /\ tr_ret' = TrReturned("save_checkpoint", NoneV)
       \/ /\ checkpoints' \in {checkpoints,
                               [checkpoints EXCEPT ![path] = Some(CutFile)]}
          /\ tr_ret' = TrRaised("save_checkpoint", 0)
    /\ UNCHANGED <<buffer, training_steps, params, opt_state, returns,
                   selected>>

\* PPOTrainer.load_checkpoint, statement by statement: the first statement
\* that raises ends the call, and what ran before it stays done.
\* Module.load_state_dict copies the tensors that fit before it raises on
\* those that do not: none of them or all of them, at the two ends.
\* Optimizer.load_state_dict checks the parameter groups before it assigns.
load_checkpoint(path) ==
    LET file == checkpoints[path]
        raises == tr_ret' = TrRaised("load_checkpoint", 0)
    IN /\ UNCHANGED <<buffer, returns, checkpoints, selected>>
       /\ IF IsNone(file) \/ ~file[1].readable
             \/ IsNone(file[1].network_state)
          THEN raises /\ UNCHANGED <<params, opt_state, training_steps>>
          ELSE LET network_state == file[1].network_state[1]
                   optimizer_state == file[1].optimizer_state
                   steps == file[1].training_steps
               IN IF ~network_state.fits
                  THEN /\ raises
                       /\ params' \in {params, network_state.value}
                       /\ UNCHANGED <<opt_state, training_steps>>
                  ELSE /\ params' = network_state.value
                       /\ IF IsNone(optimizer_state)
                             \/ ~optimizer_state[1].fits
                          THEN raises
                               /\ UNCHANGED <<opt_state, training_steps>>
                          ELSE /\ opt_state' = optimizer_state[1].value
                               /\ IF IsNone(steps)
                                  THEN raises /\ UNCHANGED training_steps
                                  ELSE /\ training_steps' = steps[1]
                                       /\ tr_ret' = TrReturned(
                                            "load_checkpoint", NoneV)

\* ---------------------------------------------------------- select_action

\* The action has three components: move_x, move_z, action_type.
ActionDim == 3

\* np.clip's upper limit 1, in tenths; the lower limit is its negative.
ClipLimit == 10

\* The exploration noise drawn for a component is MaxNoise tenths, up or down.
MaxNoise == 2

\* What the policy head's Tanh puts out for a component, in tenths.
TanhOutputs == {-ClipLimit, 0, ClipLimit}

NoiseDraws == {-MaxNoise, MaxNoise}

\* np.clip that lets every value through.
clip_none(x, lo, hi) == x

\* np.clip(x, lo, hi) on one component
clip(x, lo, hi) == IF x < lo THEN lo ELSE IF x > hi THEN hi ELSE x

\* PPOTrainer.select_action on the network's output and the noise drawn: the
\* clipped sum, the placeholder log-probability and the value estimate.
select_action(output, noise, value) ==
    /\ selected' =
         Some([action |-> [i \in 1..ActionDim |->
                             clip(output[i] + noise[i], -ClipLimit, ClipLimit)],
               log_prob |-> 0,
               value |-> value])
    /\ tr_ret' = TrReturned("select_action", NoneV)
    /\ UNCHANGED <<buffer, training_steps, params, opt_state, returns,
                   checkpoints>>

\* ================================================================== agent

\* Positions are in thousandths of a world unit, velocities in thousandths
\* per second, time steps in milliseconds, angles in degrees, health and
\* energy in tenths, rewards in hundredths.

\* ------------------------------------------------------------------ bounds

\* act calls between two resets at most.
MaxSteps == 2

\* Objects in a world snapshot at most.
MaxObjects == 6

\* Hundredths of reward an agent collects or loses at most between resets.
MaxTotalReward == 120

\* add_experience calls at most.
MaxAdded == 102

\* The capacity of a small long-term memory.
SmallCapacity == 2

\* Episodic events and experiences added before and between resets.
MaxEvents == 2
\* The longest reward history update_emotional_state is given.
MaxHistory == 12

\* ------------------------------------------------------- program constants

\* health = 100.0
FullHealth == 1000

\* energy = 100.0, and the cap of resting
FullEnergy == 1000

\* Below energy 20 the agent rests and is penalized.
LowEnergy == 200

\* decide_action costs 0.1 energy.
DecideDrain == 1

\* A move costs 0.2 energy.
MoveCost == 2

\* A rest gives 1.0 energy.
RestGain == 10

\* An interaction costs 0.5 energy.
InteractCost == 5

\* dt = 0.016
DefaultDt == 16

\* A movement turns the agent when its magnitude is above 0.01.
TurnThreshold == 10

\* speed = uniform(0.5, max_speed), max_speed = 5.0
MinSpeed == 500

MaxSpeed == 5000

\* observation_radius = 10.0
ObservationRadius == 10000

\* perceive looks at objects[:5] and pads to 20 object features.
ObjectsSeen == 5

ObjectFeatures == 20

\* The reward terms: 0.1, 0.5, 0.05, 0.3, 1.0, and the boundary at 10.
AliveReward == 10

LowEnergyPenalty == 50

IdlePenalty == 5

InteractReward == 30

BoundsPenalty == 100

Boundary == 10000

\* deque(maxlen=100)
ShortTermMax == 100

\* The length of an observation: PPOTrainer(observation_dim=29).
ObservationDim == 29

\* The features perceive takes from the agent itself.
SelfFeatures == 9

\* capacity: int = 1000
DefaultCapacity == 1000

\* update_emotional_state looks at get_recent(n=10).
RecentWindow == 10

\* A mean reward above 0.2 makes the agent happy.
HappyMean == 20

\* A mean reward below -0.2 makes it frustrated.
FrustratedMean == 20

\* ------------------------------------------------------------------ state

VARIABLES
    position,         \* EmbodiedAgent.position: <<x, y, z>>
    velocity,         \* EmbodiedAgent.velocity: <<x, y, z>>
    rotation,         \* EmbodiedAgent.rotation
    health,           \* EmbodiedAgent.health
    energy,           \* EmbodiedAgent.energy
    current_action,   \* EmbodiedAgent.current_action
    emotional_state,  \* EmbodiedAgent.emotional_state
    total_reward,     \* EmbodiedAgent.total_reward
    episode_steps,    \* EmbodiedAgent.episode_steps
    capacity,         \* AgentMemory.capacity
    short_term,       \* AgentMemory.short_term, oldest first
    long_term,        \* AgentMemory.long_term, oldest first
    episodic,         \* AgentMemory.episodic
    world,            \* the world snapshot the caller passes in
    ag_ret,           \* what the last agent call returned
    mem_ret,          \* what the last get_recent returned, with its argument
    acts,             \* history: the act calls since the first state or reset
    added             \* history: every experience given to add_experience

body_vars == <<position, velocity, rotation>>

mem_vars == <<capacity, short_term, long_term, episodic, mem_ret, added>>

ag_vars == <<body_vars, health, energy, current_action, emotional_state,
             total_reward, episode_steps, world, ag_ret, acts, mem_vars>>

\* ---------------------------------------------------------------- helpers

\* seq[:n]
Prefix(seq, n) == SubSeq(seq, 1, Min(n, Len(seq)))

\* a - b on vectors
Sub(a, b) == [i \in 1..3 |-> a[i] - b[i]]

\* The square of np.linalg.norm(v).
Norm2(v) == v[1] * v[1] + v[2] * v[2] + v[3] * v[3]

\* The largest r in lo..hi with r * r <= n.
RECURSIVE RootBetween(_, _, _)
RootBetween(n, lo, hi) ==
    IF lo >= hi THEN lo
    ELSE LET mid == (lo + hi + 1) \div 2
         IN IF mid * mid <= n THEN RootBetween(n, mid, hi)
            ELSE RootBetween(n, lo, mid - 1)

\* np.linalg.norm(v), to the thousandth below.
Norm(v) == RootBetween(Norm2(v), 0, Min(Norm2(v), 46340))

\* np.arctan2(z, x) in degrees, for the directions along the axes.
Arctan2(z, x) ==
    CASE z = 0 /\ x >= 0 -> 0
      [] z > 0 /\ x = 0 -> 90
      [] z = 0 /\ x < 0 -> 180
      [] z < 0 /\ x = 0 -> -90

ZeroVector == <<0, 0, 0>>

\* np.array([0.0, 0.5, 0.0])
DefaultPosition == <<0, 500, 0>>

\* An action dict; its name is None when the key is absent.
Action(type, movement, name) ==
    [type |-> type, movement |-> movement, name |-> name]

RestAction == Action("rest", ZeroVector, Some("resting"))

MoveAction(movement) == Action("move", movement, Some("moving"))

InteractAction == Action("interact", ZeroVector, Some("interacting"))

IdleAction == Action("idle", ZeroVector, Some("idle"))

AgRet(op, action, observation, reward) ==
    [op |-> op, action |-> action, observation |-> observation,
     reward |-> reward]

\* A world snapshot; its objects are None when the key is absent.
World(objects) == [objects |-> objects]

EmptyWorld == World(NoneV)

\* An object of a snapshot; its position is None when the key is absent.
Object(pos) == [position |-> pos]

\* An agent with the position create_agent gave it, the energy e that
\* decide_action calls have left it, and the experiences of history, fewer
\* than either buffer holds, added to its memory.
AgentWith(pos, e, cap, world_state, history) ==
    /\ position = pos
    /\ velocity = ZeroVector
    /\ rotation = 0
    /\ health = FullHealth
    /\ energy = e
    /\ current_action = "idle"
    /\ emotional_state = "neutral"
    /\ total_reward = 0
    /\ episode_steps = 0
    /\ capacity = cap
    /\ short_term = history
    /\ long_term = history
    /\ episodic = <<>>
    /\ world = world_state
    /\ ag_ret = AgRet("init", NoneV, <<>>, NoneV)
    /\ mem_ret = NoneV
    /\ acts = 0
    /\ added = history

\* EmbodiedAgent.__init__ with AgentMemory(capacity) and the position that
\* create_agent gives the agent, followed by as many decide_action calls as
\* bring the energy down to e.
AgentAt(pos, e, cap, world_state) ==
    AgentWith(pos, e, cap, world_state, <<>>)

\* EmbodiedAgent.__init__
InitAgent ==
    AgentAt(DefaultPosition, FullEnergy, DefaultCapacity, EmptyWorld)

\* ---------------------------------------------------------- EmbodiedAgent

\* distance <= observation_radius
in_radius_inclusive(relative_pos) ==
    Norm2(relative_pos) <= ObservationRadius * ObservationRadius

\* distance < self.config.observation_radius
in_radius(relative_pos) ==
    Norm2(relative_pos) < ObservationRadius * ObservationRadius

\* perceive's loop over the objects it looks at: for each one that has a
\* position closer than the observation radius, its relative position and
\* its distance.
RECURSIVE nearby_objects(_, _)
nearby_objects(objects, pos) ==
    IF objects = <<>> THEN <<>>
    ELSE LET obj == Head(objects)
             rest == nearby_objects(Tail(objects), pos)
         IN IF IsNone(obj.position) THEN rest
            ELSE LET relative_pos == Sub(obj.position[1], pos)
                 IN IF in_radius(relative_pos)
                    THEN relative_pos \o <<Norm(relative_pos)>> \o rest
                    ELSE rest

\* The padding that adds nothing.
pad_none(features, n) == features

\* while len(nearby_objects) < n: nearby_objects.append(0.0)
pad(features, n) ==
    IF Len(features) < n
    THEN features \o [i \in 1..(n - Len(features)) |-> 0]
    ELSE features

\* The vector perceive builds for an agent in a world.
observe(pos, vel, rot, hp, en, world_state) ==
    pos \o vel \o <<rot, hp, en>>
        \o Prefix(pad(nearby_objects(
                         Prefix(GetOr(world_state.objects, <<>>), ObjectsSeen),
                         pos),
                      ObjectFeatures),
                  ObjectFeatures)

\* EmbodiedAgent.perceive
perceive(world_state) ==
    /\ ag_ret' = AgRet("perceive", NoneV,
                       observe(position, velocity, rotation, health, energy,
                               world_state),
                       NoneV)
    /\ UNCHANGED <<body_vars, health, energy, current_action, emotional_state,
                   total_reward, episode_steps, world, acts, mem_vars>>

\* The low-energy test made one drain under the rest level.
decide_rests_late(before, drained) == drained < LowEnergy - DecideDrain

\* The low-energy test made on the energy before the drain.
decide_rests_before(before, drained) == before < LowEnergy

\* decide_action's low-energy test, made on the drained energy.
decide_rests(before, drained) == drained < LowEnergy

\* EmbodiedAgent.decide_action, on the random draws it makes: the action
\* type and, for a move, the movement (direction * speed).
decide_action(observation, action_type, movement) ==
    LET drained == Max(0, energy - DecideDrain)
    IN /\ energy' = drained
       /\ ag_ret' =
            AgRet("decide_action",
                  Some(IF decide_rests(energy, drained) THEN RestAction
                       ELSE IF action_type = "move" THEN MoveAction(movement)
                       ELSE IF action_type = "interact" THEN InteractAction
                       ELSE IdleAction),
                  <<>>, NoneV)
       /\ UNCHANGED <<body_vars, health, current_action, emotional_state,
                      total_reward, episode_steps, world, acts, mem_vars>>

\* position + velocity * dt
advance(pos, vel, dt) == [i \in 1..3 |-> pos[i] + (vel[i] * dt) \div 1000]

\* Resting with no cap on the energy.
rest_energy_uncapped(e) == e + RestGain

\* The energy after a rest.
rest_energy(e) == Min(FullEnergy, e + RestGain)

\* An interaction at the cost of a move.
interact_energy_as_move(e) == Max(0, e - MoveCost)

\* The energy after an interaction.
interact_energy(e) == Max(0, e - InteractCost)

\* The step counter that counts only the actions that do something.
steps_after_branch(type, steps) ==
    IF type \in {"move", "rest", "interact"} THEN steps + 1 ELSE steps

\* The step counter after an act call.
steps_after(type, steps) == steps + 1

\* EmbodiedAgent.act
act(action, dt) ==
    /\ current_action' = GetOr(action.name, "idle")
    /\ CASE action.type = "move" ->
              /\ velocity' = action.movement
              /\ position' = advance(position, action.movement, dt)
              /\ rotation' =
                   IF Norm2(action.movement) > TurnThreshold * TurnThreshold
                   THEN Arctan2(action.movement[3], action.movement[1])
                   ELSE rotation
              /\ energy' = Max(0, energy - MoveCost)
         [] action.type = "rest" ->
              /\ velocity' = ZeroVector
              /\ energy' = rest_energy(energy)
              /\ UNCHANGED <<position, rotation>>
         [] action.type = "interact" ->
              /\ velocity' = ZeroVector
              /\ energy' = interact_energy(energy)
              /\ UNCHANGED <<position, rotation>>
         [] OTHER -> UNCHANGED <<body_vars, energy>>
    /\ episode_steps' = steps_after(action.type, episode_steps)
    /\ acts' = acts + 1
    /\ ag_ret' = AgRet("act", NoneV, <<>>, NoneV)
    /\ UNCHANGED <<health, emotional_state, total_reward, world, mem_vars>>

\* The boundary test that also penalizes the boundary itself.
out_of_bounds_at(pos) ==
    pos[1] * pos[1] + pos[3] * pos[3] >= Boundary * Boundary

\* np.linalg.norm(position[[0, 2]]) > 10
out_of_bounds(pos) ==
    pos[1] * pos[1] + pos[3] * pos[3] > Boundary * Boundary

\* The reward calculate_reward computes.
reward_of(en, label, pos) ==
    AliveReward
      - (IF en < LowEnergy THEN LowEnergyPenalty ELSE 0)
      - (IF label = "idle" THEN IdlePenalty ELSE 0)
      + (IF label = "interacting" THEN InteractReward ELSE 0)
      - (IF out_of_bounds(pos) THEN BoundsPenalty ELSE 0)

\* EmbodiedAgent.calculate_reward
calculate_reward(world_state) ==
    LET reward == reward_of(energy, current_action, position)
    IN /\ total_reward' = total_reward + reward
       /\ ag_ret' = AgRet("calculate_reward", NoneV, <<>>, Some(reward))
       /\ UNCHANGED <<body_vars, health, energy, current_action,
                      emotional_state, episode_steps, world, acts, mem_vars>>

\* clear_episodic that leaves the list as it is.
clear_episodic_keep(events) == events

\* AgentMemory.clear_episodic, as a function of the list.
clear_episodic(events) == <<>>

\* EmbodiedAgent.reset
reset(pos) ==
    /\ position' = GetOr(pos, DefaultPosition)
    /\ velocity' = ZeroVector
    /\ rotation' = 0
    /\ health' = FullHealth
    /\ energy' = FullEnergy
    /\ current_action' = "idle"
    /\ emotional_state' = "neutral"
    /\ total_reward' = 0
    /\ episode_steps' = 0
    /\ episodic' = clear_episodic(episodic)
    /\ acts' = 0
    /\ ag_ret' = AgRet("reset", NoneV, <<>>, NoneV)
    /\ UNCHANGED <<world, capacity, short_term, long_term, mem_ret, added>>

\* ------------------------------------------------------------ AgentMemory

\* deque.append that drops the newest entry of a full deque.
deque_append_newest(d, x, maxlen) ==
    IF maxlen = 0 THEN <<>>
    ELSE IF Len(d) >= maxlen THEN SubSeq(d, 1, maxlen - 1) \o <<x>>
    ELSE Append(d, x)

\* deque(maxlen).append(x): a full deque drops its oldest entry.
deque_append(d, x, maxlen) ==
    IF maxlen = 0 THEN <<>>
    ELSE IF Len(d) >= maxlen THEN Tail(d) \o <<x>>
    ELSE Append(d, x)

\* AgentMemory.add_experience
add_experience(observation, action, reward, next_observation, done) ==
    LET experience == [observation |-> observation, action |-> action,
                       reward |-> reward,
                       next_observation |-> next_observation, done |-> done]
    IN /\ short_term' = deque_append(short_term, experience, ShortTermMax)
       /\ long_term' = deque_append(long_term, experience, capacity)
       /\ added' = Append(added, experience)
       /\ UNCHANGED <<body_vars, health, energy, current_action,
                      emotional_state, total_reward, episode_steps, world,
                      ag_ret, acts, capacity, episodic, mem_ret>>

\* seq[start:] for a Python index start, negative counting from the end.
SliceFrom(seq, start) ==
    LET from == IF start < 0 THEN Max(Len(seq) + start, 0)
                ELSE Min(start, Len(seq))
    IN SubSeq(seq, from + 1, Len(seq))

\* AgentMemory.get_recent: list(self.short_term)[-n:]
get_recent(n) ==
    /\ mem_ret' = Some([n |-> n, recent |-> SliceFrom(short_term, -n)])
    /\ UNCHANGED <<body_vars, health, energy, current_action, emotional_state,
                   total_reward, episode_steps, world, ag_ret, acts, capacity,
                   short_term, long_term, episodic, added>>

\* AgentMemory.add_episodic_memory
add_episodic_memory(event) ==
    /\ episodic' = Append(episodic, event)
    /\ UNCHANGED <<body_vars, health, energy, current_action, emotional_state,
                   total_reward, episode_steps, world, ag_ret, acts, capacity,
                   short_term, long_term, mem_ret, added>>

\* The sum of the reward fields of a list of experiences.
RECURSIVE sum_rewards(_)
sum_rewards(experiences) ==
    IF experiences = <<>> THEN 0
    ELSE Head(experiences).reward + sum_rewards(Tail(experiences))

\* The label with the thresholds taken in: >= for >, <= for <.
emotion_of_inclusive(recent) ==
    IF recent = <<>> THEN "neutral"
    ELSE IF sum_rewards(recent) >= HappyMean * Len(recent) THEN "happy"
    ELSE IF sum_rewards(recent) <= -FrustratedMean * Len(recent)
    THEN "frustrated"
    ELSE "neutral"

\* The label update_emotional_state gives to the experiences it looks at:
\* np.mean(rewards) > 0.2 as sum > 0.2 * len, and likewise for < -0.2.
emotion_of(recent) ==
    IF recent = <<>> THEN "neutral"
    ELSE IF sum_rewards(recent) > HappyMean * Len(recent) THEN "happy"
    ELSE IF sum_rewards(recent) < -FrustratedMean * Len(recent)
    THEN "frustrated"
    ELSE "neutral"

\* EmbodiedAgent.update_emotional_state
update_emotional_state ==
    /\ emotional_state' = emotion_of(SliceFrom(short_term, -RecentWindow))
    /\ ag_ret' = AgRet("update_emotional_state", NoneV, <<>>, NoneV)
    /\ UNCHANGED <<body_vars, health, energy, current_action, total_reward,
                   episode_steps, world, acts, mem_vars>>

\* ----------------------------------------------------------- agent inputs

\* What np.random.choice draws in decide_action.
ActionTypes == {"move", "interact", "idle"}

\* Movements decide_action draws: full speed along x, the lowest speed
\* against z, and the zero direction.
DecideMovements == {<<MaxSpeed, 0, 0>>, <<0, 0, -MinSpeed>>, ZeroVector}

\* The actions decide_action returns, and an idle one with no name.
ActInputs ==
    {RestAction, InteractAction, IdleAction, Action("idle", ZeroVector, NoneV)}
    \cup {MoveAction(movement) : movement \in DecideMovements}

\* One action of each kind.
ActKinds == {RestAction, InteractAction, IdleAction,
             MoveAction(<<MaxSpeed, 0, 0>>)}

\* Positions given to reset: none, beyond the boundary, on the boundary.
ResetPositions ==
    {NoneV, Some(<<Boundary + 1000, 500, 0>>), Some(<<Boundary, 500, 0>>)}

\* Positions create_agent gives: the first position, beyond the boundary.
CreatePositions == {DefaultPosition, <<Boundary + 1000, 500, 0>>}

\* Energies a fresh agent has after some number of decide_action calls.
StartEnergies ==
    {FullEnergy, FullEnergy - InteractCost, LowEnergy, LowEnergy - 1,
     InteractCost - 1, 1, 0}

\* Objects of a snapshot: with no position, inside the observation radius
\* of an agent at its first position, and at that radius exactly (not
\* inside it, and inside the radius of an agent beyond the boundary).
ObjectKinds ==
    {Object(NoneV), Object(Some(<<6000, 500, 0>>)),
     Object(Some(<<ObservationRadius, 500, 0>>))}

\* Snapshots with no objects key, and with up to MaxObjects objects.
WorldSnapshots ==
    {EmptyWorld} \cup
    {World(Some(objects)) :
        objects \in UNION {[1..n -> ObjectKinds] : n \in 0..MaxObjects}}

\* The arguments given to get_recent.
RecentArgs == {0, 1, 10, ShortTermMax, ShortTermMax + 1}

\* The rewards of remembered experiences, in hundredths: means of -0.4,
\* -0.2, 0.2 and 0.4 when all of a window's rewards are equal.
RewardInputs == {-40, -20, 20, 40}

\* The experience add_experience stores for the i-th step of an agent.
Experience(i, reward) ==
    [observation |-> i, action |-> "act", reward |-> reward,
     next_observation |-> i, done |-> FALSE]

\* The memory after n add_experience calls, the first k with reward a and
\* the others with reward b.
History(n, k, a, b) ==
    [i \in 1..n |-> Experience(i, IF i <= k THEN a ELSE b)]

\* Numbers of experiences: none, one, around the window of
\* update_emotional_state, and the most.
HistoryLengths ==
    {0, 1, RecentWindow - 1, RecentWindow, RecentWindow + 1, MaxHistory}

Histories ==
    {History(n, k, a, b) :
        n \in HistoryLengths, k \in 0..MaxHistory, a \in RewardInputs,
        b \in RewardInputs}

\* The events add_episodic_memory is given.
EpisodicEvents == {[type |-> "met"]}

\* ========================================================== api/agents.py
\*
\* The endpoints of api/agents.py over the two registries.  An agent and a
\* trainer of a registry are records of the fields the endpoints read and
\* write; the operations on them are those of EmbodiedAgent, AgentMemory and
\* PPOTrainer above, as functions of the record.  An element of an action
\* vector is in tenths, as ClipLimit is.

\* ------------------------------------------------------------------ bounds

\* The ticks (decide_action, then act) of the agent's own loop.
MaxTicks == 2

\* create_agent calls at most.
MaxAgents == 2

\* step_agent calls that return at most, over all agents.
MaxApiSteps == 2

\* ------------------------------------------------------- program constants

\* abs(action_vector[i]) > 0.1 makes the action a move.
MoveThreshold == 1

\* movement = action_vector * 5: thousandths of a unit per second for a
\* tenth of the action vector.
MovementScale == 500

\* ------------------------------------------------------------------ state

VARIABLES
    active_agents,   \* active_agents: agent id -> Optional[EmbodiedAgent]
    agent_trainers,  \* agent_trainers: agent id -> Optional[PPOTrainer]
    agent_uuids,     \* number of agent ids handed out so far
    api_ret,         \* what the last endpoint call returned or raised
    stepped,         \* history: step_agent calls that returned, per agent id
    trained          \* history: whether train_agent was called, per agent id

api_vars == <<active_agents, agent_trainers, agent_uuids, api_ret, stepped,
              trained>>

AgentIds == 1..MaxAgents

\* What an endpoint returned: for step_agent the action vector selected,
\* the reward, and the world_state it was called with.
ApiReturned(op, agent_id, action_vector, reward, world_state) ==
    [op |-> op, kind |-> "ok", agent_id |-> agent_id,
     action_vector |-> action_vector, reward |-> reward,
     world_state |-> world_state]

\* The step_agent calls that have returned for the agents of ids.
RECURSIVE steps_of(_)
steps_of(ids) ==
    IF ids = {} THEN 0
    ELSE LET id == CHOOSE i \in ids : TRUE
         IN stepped[id] + steps_of(ids \ {id})

\* HTTPException(status_code=500)
ApiError(op, agent_id) ==
    [op |-> op, kind |-> "500", agent_id |-> agent_id,
     action_vector |-> <<>>, reward |-> NoneV, world_state |-> NoneV]

\* HTTPException(status_code=404)
ApiNotFound(op, agent_id) ==
    [op |-> op, kind |-> "404", agent_id |-> agent_id,
     action_vector |-> <<>>, reward |-> NoneV, world_state |-> NoneV]

InitApi ==
    /\ active_agents = [id \in AgentIds |-> NoneV]
    /\ agent_trainers = [id \in AgentIds |-> NoneV]
    /\ agent_uuids = 0
    /\ api_ret = ApiNotFound("init", 0)
    /\ stepped = [id \in AgentIds |-> 0]
    /\ trained = [id \in AgentIds |-> FALSE]

\* ------------------------------------------------- the objects as records

\* EmbodiedAgent.__init__ followed by create_agent's agent.position = ...
NewAgent(pos) ==
    [position |-> pos, velocity |-> ZeroVector, rotation |-> 0,
     health |-> FullHealth, energy |-> FullEnergy, current_action |-> "idle",
     emotional_state |-> "neutral", total_reward |-> 0, episode_steps |-> 0,
     short_term |-> <<>>, long_term |-> <<>>, episodic |-> <<>>]

\* PPOTrainer.__init__: the buffer and the step counter.
NewTrainer == [buffer |-> [k \in BufferKeys |-> <<>>], training_steps |-> 0]

\* EmbodiedAgent.perceive of an agent record.
agent_perceive(agent, world_state) ==
    observe(agent.position, agent.velocity, agent.rotation, agent.health,
            agent.energy, world_state)

\* PPOTrainer.select_action: np.clip(action + noise, -1, 1)
clipped_action(output, noise) ==
    [i \in 1..ActionDim |-> clip(output[i] + noise[i], -ClipLimit, ClipLimit)]

\* abs(action_vector[0]) > 0.1 or abs(action_vector[1]) > 0.1
is_move(action_vector) ==
    \/ action_vector[1] > MoveThreshold \/ action_vector[1] < -MoveThreshold
    \/ action_vector[2] > MoveThreshold \/ action_vector[2] < -MoveThreshold

\* step_agent's conversion with a rest where the source has an idle.
action_of_resting(action_vector) ==
    IF is_move(action_vector)
    THEN Action("move",
                <<action_vector[1] * MovementScale, 0,
                  action_vector[2] * MovementScale>>,
                Some("moving"))
    ELSE RestAction

\* step_agent's conversion of an action vector to an action dict.
action_of(action_vector) ==
    Action(IF is_move(action_vector) THEN "move" ELSE "idle",
           <<action_vector[1] * MovementScale, 0,
             action_vector[2] * MovementScale>>,
           Some(IF is_move(action_vector) THEN "moving" ELSE "idle"))

\* EmbodiedAgent.decide_action of an agent record, on its random draws:
\* the agent with its energy drained, and the action.
agent_decide(agent, action_type, movement) ==
    LET drained == Max(0, agent.energy - DecideDrain)
    IN [agent |-> [agent EXCEPT !.energy = drained],
        action |-> IF decide_rests(agent.energy, drained) THEN RestAction
                   ELSE IF action_type = "move" THEN MoveAction(movement)
                   ELSE IF action_type = "interact" THEN InteractAction
                   ELSE IdleAction]

\* EmbodiedAgent.act of an agent record.
agent_act(agent, action, dt) ==
    LET named == [agent EXCEPT
                    !.current_action = GetOr(action.name, "idle"),
                    !.episode_steps = steps_after(action.type, @)]
    IN CASE action.type = "move" ->
              [named EXCEPT
                 !.velocity = action.movement,
                 !.position = advance(@, action.movement, dt),
                 !.rotation =
                    IF Norm2(action.movement) > TurnThreshold * TurnThreshold
                    THEN Arctan2(action.movement[3], action.movement[1])
                    ELSE @,
                 !.energy = Max(0, @ - MoveCost)]
         [] action.type = "rest" ->
              [named EXCEPT !.velocity = ZeroVector,
                            !.energy = rest_energy(@)]
         [] action.type = "interact" ->
              [named EXCEPT !.velocity = ZeroVector,
                            !.energy = interact_energy(@)]
         [] OTHER -> named

\* The reward EmbodiedAgent.calculate_reward gives an agent record.
agent_reward(agent) ==
    reward_of(agent.energy, agent.current_action, agent.position)

\* store_transition that stores nothing.
stored_nothing(trainer, observation, action, reward, value, log_prob, done) ==
    trainer

\* PPOTrainer.store_transition of a trainer record.
stored(trainer, observation, action, reward, value, log_prob, done) ==
    [trainer EXCEPT
       !.buffer = [@ EXCEPT
                     !["observations"] = Append(@, observation),
                     !["actions"] = Append(@, action),
                     !["rewards"] = Append(@, reward),
                     !["values"] = Append(@, value),
                     !["log_probs"] = Append(@, log_prob),
                     !["dones"] = Append(@, done)]]

\* AgentMemory.add_experience of an agent record; AgentMemory() has the
\* default capacity.
agent_remember(agent, observation, action, reward, next_observation, done) ==
    LET experience == [observation |-> observation, action |-> action,
                       reward |-> reward,
                       next_observation |-> next_observation, done |-> done]
    IN [agent EXCEPT
          !.short_term = deque_append(@, experience, ShortTermMax),
          !.long_term = deque_append(@, experience, DefaultCapacity)]

\* EmbodiedAgent.update_emotional_state of an agent record.
agent_update_emotion(agent) ==
    [agent EXCEPT
       !.emotional_state =
          emotion_of(SliceFrom(agent.short_term, -RecentWindow))]

\* EmbodiedAgent.reset() of an agent record.
agent_reset(agent) ==
    [agent EXCEPT
       !.position = DefaultPosition, !.velocity = ZeroVector, !.rotation = 0,
       !.health = FullHealth, !.energy = FullEnergy,
       !.current_action = "idle", !.emotional_state = "neutral",
       !.total_reward = 0, !.episode_steps = 0,
       !.episodic = clear_episodic(@)]

\* PPOTrainer.update of a trainer record that trains: the buffer is cleared
\* and the step counter goes up.
trainer_trained(trainer) ==
    [trainer EXCEPT !.buffer = clear_buffer(@), !.training_steps = @ + 1]

\* --------------------------------------------------------------- endpoints

\* POST /create
create_agent(request_position) ==
    /\ agent_uuids < MaxAgents
    /\ LET id == agent_uuids + 1
           pos == IF IsNone(request_position)
                     \/ request_position[1] = <<>>
                  THEN DefaultPosition ELSE request_position[1]
       IN /\ active_agents' = [active_agents EXCEPT ![id] = Some(NewAgent(pos))]
          /\ agent_trainers' = [agent_trainers EXCEPT ![id] = Some(NewTrainer)]
          /\ agent_uuids' = id
          /\ api_ret' = ApiReturned("create_agent", id, <<>>, NoneV, NoneV)
    /\ UNCHANGED <<stepped, trained>>

\* GET /{agent_id}
get_agent(agent_id) ==
    /\ api_ret' = IF IsNone(active_agents[agent_id])
                  THEN ApiNotFound("get_agent", agent_id)
                  ELSE ApiReturned("get_agent", agent_id, <<>>, NoneV, NoneV)
    /\ UNCHANGED <<active_agents, agent_trainers, agent_uuids, stepped,
                   trained>>

\* delete_agent that leaves the trainer of the agent registered.
delete_agent_keeps_trainer(agent_id) ==
    IF IsNone(active_agents[agent_id])
    THEN /\ api_ret' = ApiNotFound("delete_agent", agent_id)
         /\ UNCHANGED <<active_agents, agent_trainers, agent_uuids, stepped,
                        trained>>
    ELSE /\ active_agents' = [active_agents EXCEPT ![agent_id] = NoneV]
         /\ api_ret' = ApiReturned("delete_agent", agent_id, <<>>, NoneV,
                                   NoneV)
         /\ UNCHANGED <<agent_trainers, agent_uuids, stepped, trained>>

\* DELETE /{agent_id}
delete_agent(agent_id) ==
    IF IsNone(active_agents[agent_id])
    THEN /\ api_ret' = ApiNotFound("delete_agent", agent_id)
         /\ UNCHANGED <<active_agents, agent_trainers, agent_uuids, stepped,
                        trained>>
    ELSE /\ active_agents' = [active_agents EXCEPT ![agent_id] = NoneV]
         /\ agent_trainers' = [agent_trainers EXCEPT ![agent_id] = NoneV]
         /\ api_ret' = ApiReturned("delete_agent", agent_id, <<>>, NoneV,
                                   NoneV)
         /\ UNCHANGED <<agent_uuids, stepped, trained>>

\* The body of step_agent for an agent and its trainer, if it has one, on
\* the draws of select_action (the network's output, the noise, the value)
\* and of decide_action (the action type, the movement): the agent and the
\* trainer after the step, the action vector selected, and the reward.
agent_stepped(agent, trainer, world_state, draws) ==
    LET observation == agent_perceive(agent, world_state)
        action_vector ==
            IF IsNone(trainer) THEN <<>>
            ELSE clipped_action(draws.output, draws.noise)
        decided ==
            IF IsNone(trainer)
            THEN agent_decide(agent, draws.action_type, draws.movement)
            ELSE [agent |-> agent, action |-> action_of(action_vector)]
        acted == agent_act(decided.agent, decided.action, DefaultDt)
        reward == agent_reward(acted)
        rewarded == [acted EXCEPT !.total_reward = @ + reward]
        remembered ==
            agent_remember(rewarded, observation, decided.action, reward,
                           observation, FALSE)
    IN [agent |-> agent_update_emotion(remembered),
        trainer |-> IF IsNone(trainer) THEN trainer
                    ELSE Some(stored(trainer[1], observation, action_vector,
                                     reward, draws.value, 0, FALSE)),
        action_vector |-> action_vector,
        reward |-> reward]

\* POST /{agent_id}/step.  The handler has no await, so it runs to its end
\* before another request.
step_agent(agent_id, world_state, draws) ==
    IF IsNone(active_agents[agent_id])
    THEN /\ api_ret' = ApiNotFound("step_agent", agent_id)
         /\ UNCHANGED <<active_agents, agent_trainers, agent_uuids, stepped,
                        trained>>
    ELSE /\ steps_of(AgentIds) < MaxApiSteps
         /\ LET after == agent_stepped(active_agents[agent_id][1],
                                       agent_trainers[agent_id], world_state,
                                       draws)
            IN /\ agent_trainers' =
                    [agent_trainers EXCEPT ![agent_id] = after.trainer]
               /\ active_agents' =
                    [active_agents EXCEPT ![agent_id] = Some(after.agent)]
               /\ api_ret' = ApiReturned("step_agent", agent_id,
                                         after.action_vector,
                                         Some(after.reward),
                                         Some(world_state))
         /\ stepped' = [stepped EXCEPT ![agent_id] = @ + 1]
         /\ UNCHANGED <<agent_uuids, trained>>

\* POST /{agent_id}/train
train_agent(agent_id) ==
    IF IsNone(agent_trainers[agent_id])
    THEN /\ api_ret' = ApiNotFound("train_agent", agent_id)
         /\ UNCHANGED <<active_agents, agent_trainers, agent_uuids, stepped,
                        trained>>
    ELSE /\ \E raises \in BOOLEAN :
               LET trainer == agent_trainers[agent_id][1]
               IN IF below_threshold(trainer.buffer)
                  THEN /\ agent_trainers' = agent_trainers
                       /\ api_ret' = ApiReturned("train_agent", agent_id,
                                                 <<>>, NoneV, NoneV)
                  ELSE IF raises
                  THEN /\ agent_trainers' = agent_trainers
                       /\ api_ret' = ApiError("train_agent", agent_id)
                  ELSE /\ agent_trainers' =
                            [agent_trainers EXCEPT
                               ![agent_id] = Some(trainer_trained(trainer))]
                       /\ api_ret' = ApiReturned("train_agent", agent_id,
                                                 <<>>, NoneV, NoneV)
         /\ trained' = [trained EXCEPT ![agent_id] = TRUE]
         /\ UNCHANGED <<active_agents, agent_uuids, stepped>>

\* POST /{agent_id}/reset
reset_agent(agent_id) ==
    IF IsNone(active_agents[agent_id])
    THEN /\ api_ret' = ApiNotFound("reset_agent", agent_id)
         /\ UNCHANGED <<active_agents, agent_trainers, agent_uuids, stepped,
                        trained>>
    ELSE /\ active_agents' =
              [active_agents EXCEPT ![agent_id] = Some(agent_reset(@[1]))]
         /\ api_ret' = ApiReturned("reset_agent", agent_id, <<>>, NoneV, NoneV)
         /\ UNCHANGED <<agent_trainers, agent_uuids, stepped, trained>>

\* ----------------------------------------------------------- endpoint inputs

\* Positions of a create request: none, and next to the boundary.
RequestPositions == {NoneV, Some(<<Boundary - 10, 500, 0>>)}

\* The draws of a step: the network's output and the noise give the action
\* vectors [0, 0, 0] (idle), [1, 0, 0] (a move along x, clipped) and
\* [0, -0.2, 1] (a move against z); decide_action draws a move.
StepDraws ==
    {[output |-> out_noise[1], noise |-> out_noise[2], value |-> 0,
      action_type |-> "move", movement |-> <<MaxSpeed, 0, 0>>] :
        out_noise \in {<<<<0, 0, 0>>, <<0, 0, 0>>>>,
                       <<<<ClipLimit, 0, 0>>, <<1, 0, 0>>>>,
                       <<<<0, 0, ClipLimit>>, <<0, -2, 0>>>>}}

\* The world states of a step: no objects, and one object in sight.
StepWorlds == {EmptyWorld, World(Some(<<Object(Some(<<6000, 500, 0>>))>>))}

\* The draws of a step that moves the agent along x.
MoveDraws ==
    [output |-> <<ClipLimit, 0, 0>>, noise |-> <<0, 0, 0>>, value |-> 0,
     action_type |-> "move", movement |-> <<MaxSpeed, 0, 0>>]

\* One step that moves the agent along x in an empty world, and the
\* train_agent call that follows when the step has filled the buffer.
moved_once(pair) ==
    LET after == agent_stepped(pair.agent, Some(pair.trainer),
                               EmptyWorld, MoveDraws)
    IN [agent |-> after.agent,
        trainer |-> IF below_threshold(after.trainer[1].buffer)
                    THEN after.trainer[1]
                    ELSE trainer_trained(after.trainer[1])]

\* k such steps, one after the other: the first half of them, then the
\* rest.  The comparison has the first half evaluated before the rest
\* starts, which keeps the evaluation's nesting logarithmic in k.
RECURSIVE moved(_, _)
moved(pair, k) ==
    IF k = 0 THEN pair
    ELSE IF k = 1 THEN moved_once(pair)
    ELSE LET half == moved(pair, k \div 2)
         IN IF half = half THEN moved(half, k - (k \div 2)) ELSE pair

\* A fresh agent and its trainer after k steps.
after_moves(k) ==
    moved([agent |-> NewAgent(DefaultPosition), trainer |-> NewTrainer], k)

\* Numbers of earlier steps: none, those that bring the energy down to 20
\* and to 0, and a buffer's worth of steps after or before these.
EarlierSteps ==
    LET to_low == (FullEnergy - LowEnergy) \div MoveCost
        to_empty == FullEnergy \div MoveCost
    IN {0, to_low, to_low + MinBatch, to_empty - MinBatch, to_empty}

\* One tick of the agent's own loop that draws an idle action:
\* decide_action, then act on the action it returned.
idled_once(agent) ==
    LET decided == agent_decide(agent, "idle", ZeroVector)
    IN agent_act(decided.agent, decided.action, DefaultDt)

\* k such ticks, one after the other: the first half of them, then the
\* rest, with the first half evaluated before the rest starts.
RECURSIVE idled(_, _)
idled(agent, k) ==
    IF k = 0 THEN agent
    ELSE IF k = 1 THEN idled_once(agent)
    ELSE LET half == idled(agent, k \div 2)
         IN IF half = half THEN idled(half, k - (k \div 2)) ELSE agent

\* Numbers of earlier ticks: every one that leaves a fresh agent's energy
\* at the rest level or above.
EarlierTicks == 0..((FullEnergy - LowEnergy) \div DecideDrain)

\* ================================================ utils/websocket_manager.py

\* ------------------------------------------------------------------ bounds

\* Websockets that reach the /ws endpoint at most.
MaxConnections == 3

\* broadcast calls at most; they may run at the same time.
MaxBroadcasts == 2

\* ------------------------------------------------------------------ state

VARIABLES
    active_connections,  \* WebSocketManager.active_connections, in list order
    endpoint,            \* websocket_endpoint's position, per websocket
    broadcasts           \* the broadcast calls: position, locals and history

ws_vars == <<active_connections, endpoint, broadcasts>>

vars == <<rec_vars, tr_vars, ag_vars, api_vars, ws_vars>>

Connections == 1..MaxConnections

BroadcastIds == 1..MaxBroadcasts

\* A broadcast call before it starts.  pc is "idle", "awaiting" (suspended
\* in await connection.send_json), "returned" or "raised"; index is the
\* list iterator's index; current is the connection of the send awaited;
\* disconnected is the local list.  History: attempts are the connections
\* send_json was called on, in order; failed are those whose send raised;
\* at_call are the connections registered when the call started.
NewBroadcast ==
    [pc |-> "idle", index |-> 0, current |-> NoneV, disconnected |-> <<>>,
     attempts |-> <<>>, failed |-> {}, at_call |-> {}]

\* WebSocketManager.__init__, with no websocket at the endpoint yet and no
\* broadcast called.
InitWs ==
    /\ active_connections = <<>>
    /\ endpoint = [websocket \in Connections |-> "new"]
    /\ broadcasts = [b \in BroadcastIds |-> NewBroadcast]

\* ----------------------------------------------------------- Python lists

\* The elements of a list.
Elements(list) == {list[i] : i \in 1..Len(list)}

\* list.remove(x) of a list that holds x: the list without the first x.
remove(list, x) ==
    LET first == CHOOSE i \in 1..Len(list) :
                    list[i] = x /\ \A j \in 1..(i - 1) : list[j] # x
    IN SubSeq(list, 1, first - 1) \o SubSeq(list, first + 1, Len(list))

\* How often x is in a list.
RECURSIVE count(_, _)
count(list, x) ==
    IF list = <<>> THEN 0
    ELSE (IF Head(list) = x THEN 1 ELSE 0) + count(Tail(list), x)

\* ------------------------------------------------------- WebSocketManager

\* WebSocketManager.disconnect, on the list.
disconnect(connections, websocket) ==
    IF websocket \in Elements(connections) THEN remove(connections, websocket)
    ELSE connections

\* for conn in disconnected: self.disconnect(conn)
RECURSIVE pruned(_, _)
pruned(connections, disconnected) ==
    IF disconnected = <<>> THEN connections
    ELSE pruned(disconnect(connections, Head(disconnected)),
                Tail(disconnected))

\* broadcast's except branch that keeps no note of the connection.
failed_send_forgotten(call) ==
    [call EXCEPT !.failed = @ \cup {call.current[1]}]

\* broadcast's except branch: the connection goes on the local list.
failed_send(call) ==
    [call EXCEPT !.disconnected = Append(@, call.current[1]),
                 !.failed = @ \cup {call.current[1]}]

\* broadcast from one await to the next.  The for statement's iterator
\* reads the list as it is now, at its index: while the index is inside the
\* list the connection there is taken, the index moves on and send_json is
\* called on it; otherwise the loop ends, the connections on the local list
\* are disconnected and the call returns.
next_send(call, connections) ==
    IF call.index < Len(connections)
    THEN [call |-> [call EXCEPT
                      !.pc = "awaiting",
                      !.current = Some(connections[call.index + 1]),
                      !.index = @ + 1,
                      !.attempts = Append(@, connections[call.index + 1])],
          connections |-> connections]
    ELSE [call |-> [call EXCEPT !.pc = "returned", !.current = NoneV],
          connections |-> pruned(connections, call.disconnected)]

\* What a send_json on a websocket can do: return or raise on one that is
\* open, raise on one that is not.
send_outcomes(websocket) ==
    IF endpoint[websocket] = "open" THEN BOOLEAN ELSE {FALSE}

\* WebSocketManager.connect, called first thing by websocket_endpoint, from
\* the return of await websocket.accept(); when accept raises, the
\* exception leaves the endpoint.
connect(websocket, accepted) ==
    /\ endpoint[websocket] = "new"
    /\ IF accepted
       THEN /\ active_connections' = Append(active_connections, websocket)
            /\ endpoint' = [endpoint EXCEPT ![websocket] = "open"]
       ELSE /\ endpoint' = [endpoint EXCEPT ![websocket] = "closed"]
            /\ UNCHANGED active_connections
    /\ UNCHANGED broadcasts

\* websocket_endpoint's receive loop when receive_text raises
\* WebSocketDisconnect: the endpoint disconnects the websocket and ends.
websocket_endpoint_disconnects(websocket) ==
    /\ endpoint[websocket] = "open"
    /\ active_connections' = disconnect(active_connections, websocket)
    /\ endpoint' = [endpoint EXCEPT ![websocket] = "closed"]
    /\ UNCHANGED broadcasts

\* WebSocketManager.send_to_client, from the end of its await.
send_to_client(websocket, sent) ==
    /\ active_connections' =
          IF sent THEN active_connections
          ELSE disconnect(active_connections, websocket)
    /\ UNCHANGED <<endpoint, broadcasts>>

\* WebSocketManager.broadcast, from the call to its first await or, with
\* no connection, to its return.
broadcast(b) ==
    /\ broadcasts[b].pc = "idle"
    /\ LET called == [NewBroadcast EXCEPT
                        !.at_call = Elements(active_connections)]
           after == next_send(called, active_connections)
       IN /\ broadcasts' = [broadcasts EXCEPT ![b] = after.call]
          /\ active_connections' = after.connections
    /\ UNCHANGED endpoint

\* WebSocketManager.broadcast, from the end of an await to the next await
\* or to its return.
broadcast_resumes(b, sent) ==
    /\ broadcasts[b].pc = "awaiting"
    /\ LET resumed == IF sent THEN broadcasts[b]
                      ELSE failed_send(broadcasts[b])
           after == next_send(resumed, active_connections)
       IN /\ broadcasts' = [broadcasts EXCEPT ![b] = after.call]
          /\ active_connections' = after.connections
    /\ UNCHANGED endpoint

\* No broadcast call is suspended in a send.
NoneAwaiting == \A b \in BroadcastIds : broadcasts[b].pc # "awaiting"

\* ---------------------------------------------------------- specifications

Init == InitRec /\ InitTrainer /\ InitAgent /\ InitApi /\ InitWs

\* The recorder alone.
NextRec ==
    \/ \E metadata \in MetadataInputs :
          start_episode(metadata) /\ UNCHANGED <<tr_vars, ag_vars, api_vars, ws_vars>>
    \/ \E request \in StartEpisodeRequests :
          api_start_episode(request) /\ UNCHANGED <<tr_vars, ag_vars, api_vars, ws_vars>>
    \/ \E w \in WorldStates, events \in EventsInputs :
          log_frame(<<>>, w, events) /\ UNCHANGED <<tr_vars, ag_vars, api_vars, ws_vars>>
    \/ end_episode /\ UNCHANGED <<tr_vars, ag_vars, api_vars, ws_vars>>
    \/ \E id \in EpisodeIds :
          delete_episode(id) /\ UNCHANGED <<tr_vars, ag_vars, api_vars, ws_vars>>
    \/ Tick /\ UNCHANGED <<tr_vars, ag_vars, api_vars, ws_vars>>

SpecRec == Init /\ [][NextRec]_vars

\* The trainer alone: store_transition, update, clear_buffer.
NextTrainer ==
    \/ /\ Len(buffer["observations"]) < MaxBuffer
       /\ \E reward \in Rewards :
             store_transition("obs", "act", reward, 0, 0, FALSE)
       /\ UNCHANGED <<rec_vars, ag_vars, api_vars, ws_vars>>
    \/ update /\ UNCHANGED <<rec_vars, ag_vars, api_vars, ws_vars>>
    \/ do_clear_buffer /\ UNCHANGED <<rec_vars, ag_vars, api_vars, ws_vars>>

SpecTrainer == Init /\ [][NextTrainer]_vars

\* The trainer and its checkpoints: transitions, update, save, load, and
\* files put under the path from outside.
NextCheckpoint ==
    \/ /\ Len(buffer["observations"]) < MaxBuffer
       /\ store_transition("obs", "act", 0, 0, 0, FALSE)
       /\ UNCHANGED <<rec_vars, ag_vars, api_vars, ws_vars>>
    \/ /\ opt_state + Epochs <= MaxOptSteps
       /\ (training_steps + 1) * Epochs <= MaxOptSteps
       /\ update
       /\ UNCHANGED <<rec_vars, ag_vars, api_vars, ws_vars>>
    \/ \E path \in Paths :
          save_checkpoint(path) /\ UNCHANGED <<rec_vars, ag_vars, api_vars, ws_vars>>
    \/ \E path \in Paths :
          load_checkpoint(path) /\ UNCHANGED <<rec_vars, ag_vars, api_vars, ws_vars>>
    \/ \E path \in Paths, file \in ForeignFiles :
          put_checkpoint(path, file)
          /\ UNCHANGED <<rec_vars, ag_vars, api_vars, ws_vars>>

SpecCheckpoint == Init /\ [][NextCheckpoint]_vars

\* The trainer's buffer and select_action.
NextSelect ==
    \/ /\ Len(buffer["observations"]) < MaxBuffer
       /\ store_transition("obs", "act", 0, 0, 0, FALSE)
       /\ UNCHANGED <<rec_vars, ag_vars, api_vars, ws_vars>>
    \/ \E output \in [1..ActionDim -> TanhOutputs],
          noise \in [1..ActionDim -> NoiseDraws] :
          select_action(output, noise, 0)
          /\ UNCHANGED <<rec_vars, ag_vars, api_vars, ws_vars>>

SpecSelect == Init /\ [][NextSelect]_vars

\* The trainer's buffer and compute_returns.
NextReturns ==
    \/ /\ Len(buffer["rewards"]) < MaxReturnsLen
       /\ \E reward \in ReturnRewards, done \in BOOLEAN :
             store_transition("obs", "act", reward, 0, 0, done)
       /\ UNCHANGED <<rec_vars, ag_vars, api_vars, ws_vars>>
    \/ compute_returns /\ UNCHANGED <<rec_vars, ag_vars, api_vars, ws_vars>>

SpecReturns == Init /\ [][NextReturns]_vars

\* perceive on every world snapshot, from the positions reset gives.
InitPerceive ==
    /\ InitRec
    /\ InitTrainer
    /\ InitWs
    /\ InitApi
    /\ \E world_state \in WorldSnapshots :
          AgentAt(DefaultPosition, FullEnergy, DefaultCapacity, world_state)

NextPerceive ==
    \/ perceive(world) /\ UNCHANGED <<rec_vars, tr_vars, api_vars, ws_vars>>
    \/ \E pos \in ResetPositions :
          reset(pos) /\ UNCHANGED <<rec_vars, tr_vars, api_vars, ws_vars>>

SpecPerceive == InitPerceive /\ [][NextPerceive]_vars

\* The agent's energy: decide_action, act on every kind of action, reset.
NextEnergy ==
    \/ \E action_type \in ActionTypes, movement \in DecideMovements :
          decide_action(<<>>, action_type, movement)
          /\ UNCHANGED <<rec_vars, tr_vars, api_vars, ws_vars>>
    \/ /\ episode_steps < MaxSteps
       /\ \E action \in ActKinds : act(action, DefaultDt)
       /\ UNCHANGED <<rec_vars, tr_vars, api_vars, ws_vars>>
    \/ reset(NoneV) /\ UNCHANGED <<rec_vars, tr_vars, api_vars, ws_vars>>

SpecEnergy == Init /\ [][NextEnergy]_vars

\* act and reset, on agents that decide_action has drained.
InitAct ==
    /\ InitRec
    /\ InitTrainer
    /\ InitWs
    /\ InitApi
    /\ \E e \in StartEnergies :
          AgentAt(DefaultPosition, e, DefaultCapacity, EmptyWorld)

NextAct ==
    \/ /\ episode_steps <= MaxSteps
       /\ \E action \in ActInputs : act(action, DefaultDt)
       /\ UNCHANGED <<rec_vars, tr_vars, api_vars, ws_vars>>
    \/ \E pos \in ResetPositions :
          reset(pos) /\ UNCHANGED <<rec_vars, tr_vars, api_vars, ws_vars>>

SpecAct == InitAct /\ [][NextAct]_vars

\* calculate_reward, on agents that create_agent has placed and
\* decide_action has drained, after act and reset.
InitReward ==
    /\ InitRec
    /\ InitTrainer
    /\ InitWs
    /\ InitApi
    /\ \E pos \in CreatePositions,
          e \in {FullEnergy, LowEnergy, LowEnergy - 1} :
          AgentAt(pos, e, DefaultCapacity, EmptyWorld)

NextReward ==
    \/ /\ episode_steps < MaxSteps
       /\ \E action \in ActKinds : act(action, DefaultDt)
       /\ UNCHANGED <<rec_vars, tr_vars, api_vars, ws_vars>>
    \/ \E pos \in ResetPositions :
          reset(pos) /\ UNCHANGED <<rec_vars, tr_vars, api_vars, ws_vars>>
    \/ /\ total_reward <= MaxTotalReward
       /\ total_reward >= -MaxTotalReward
       /\ calculate_reward(world)
       /\ UNCHANGED <<rec_vars, tr_vars, api_vars, ws_vars>>

SpecReward == InitReward /\ [][NextReward]_vars

\* The memory alone, with a small and with the default capacity; every
\* experience is told from the others by its observation.
InitMemory ==
    /\ InitRec
    /\ InitTrainer
    /\ InitWs
    /\ InitApi
    /\ \E cap \in {SmallCapacity, DefaultCapacity} :
          AgentAt(DefaultPosition, FullEnergy, cap, EmptyWorld)

NextMemory ==
    \/ /\ Len(added) < MaxAdded
       /\ add_experience(Len(added) + 1, "act", 0, Len(added) + 1, FALSE)
       /\ UNCHANGED <<rec_vars, tr_vars, api_vars, ws_vars>>
    \/ \E n \in RecentArgs :
          get_recent(n) /\ UNCHANGED <<rec_vars, tr_vars, api_vars, ws_vars>>

SpecMemory == InitMemory /\ [][NextMemory]_vars


\* The agent between resets: it acts, is rewarded after an act, remembers
\* experiences and events, updates its emotional state, and is reset.
InitReset ==
    /\ InitRec
    /\ InitTrainer
    /\ InitWs
    /\ InitApi
    /\ \E pos \in CreatePositions :
          AgentAt(pos, FullEnergy, DefaultCapacity, EmptyWorld)

NextReset ==
    \/ /\ episode_steps < MaxSteps
       /\ \E action \in {InteractAction, MoveAction(<<MaxSpeed, 0, 0>>)} :
             act(action, DefaultDt)
       /\ UNCHANGED <<rec_vars, tr_vars, api_vars, ws_vars>>
    \/ /\ ag_ret.op = "act"
       /\ calculate_reward(world)
       /\ UNCHANGED <<rec_vars, tr_vars, api_vars, ws_vars>>
    \/ /\ Len(added) < MaxEvents
       /\ add_experience(Len(added) + 1, "act", 40, Len(added) + 1, FALSE)
       /\ UNCHANGED <<rec_vars, tr_vars, api_vars, ws_vars>>
    \/ /\ Len(episodic) < MaxEvents
       /\ \E event \in EpisodicEvents : add_episodic_memory(event)
       /\ UNCHANGED <<rec_vars, tr_vars, api_vars, ws_vars>>
    \/ update_emotional_state /\ UNCHANGED <<rec_vars, tr_vars, api_vars, ws_vars>>
    \/ \E pos \in ResetPositions :
          reset(pos) /\ UNCHANGED <<rec_vars, tr_vars, api_vars, ws_vars>>

SpecReset == InitReset /\ [][NextReset]_vars

\* The agent's emotional state over the reward histories its memory can
\* hold: the state is updated, further experiences are added once the
\* window is full, and the agent is reset.
InitEmotion ==
    /\ InitRec
    /\ InitTrainer
    /\ InitWs
    /\ InitApi
    /\ \E history \in Histories :
          AgentWith(DefaultPosition, FullEnergy, DefaultCapacity, EmptyWorld,
                    history)

NextEmotion ==
    \/ update_emotional_state /\ UNCHANGED <<rec_vars, tr_vars, api_vars, ws_vars>>
    \/ /\ RecentWindow <= Len(added)
       /\ Len(added) < MaxHistory
       /\ \E reward \in RewardInputs :
             add_experience(Len(added) + 1, "act", reward, Len(added) + 1,
                            FALSE)
       /\ UNCHANGED <<rec_vars, tr_vars, api_vars, ws_vars>>
    \/ reset(NoneV) /\ UNCHANGED <<rec_vars, tr_vars, api_vars, ws_vars>>

SpecEmotion == InitEmotion /\ [][NextEmotion]_vars

\* The recorder with its reads, on a storage_dir that is empty or holds the
\* file of one earlier episode of StoredFrames frames.
InitStore ==
    /\ \E kept \in BOOLEAN :
          StoreWith(IF kept THEN EarlierDir(StoredFrames)
                    ELSE [id \in StoredIds |-> NoneV])
    /\ InitTrainer
    /\ InitWs
    /\ InitAgent
    /\ InitApi

NextStore ==
    \/ start_episode(NoneV) /\ UNCHANGED <<tr_vars, ag_vars, api_vars, ws_vars>>
    \/ log_frame(<<>>, "w", NoneV) /\ UNCHANGED <<tr_vars, ag_vars, api_vars, ws_vars>>
    \/ end_episode /\ UNCHANGED <<tr_vars, ag_vars, api_vars, ws_vars>>
    \/ \E id \in StoredIds :
          delete_episode(id) /\ UNCHANGED <<tr_vars, ag_vars, api_vars, ws_vars>>
    \/ Tick /\ UNCHANGED <<tr_vars, ag_vars, api_vars, ws_vars>>
    \/ \E id \in StoredIds :
          load_episode(id) /\ UNCHANGED <<tr_vars, ag_vars, api_vars, ws_vars>>
    \/ \E id \in StoredIds :
          get_episode_frames(id, 0, NoneV)
          /\ UNCHANGED <<tr_vars, ag_vars, api_vars, ws_vars>>
    \/ list_episodes /\ UNCHANGED <<tr_vars, ag_vars, api_vars, ws_vars>>

SpecStore == InitStore /\ [][NextStore]_vars

\* The replay of a stored episode of up to StoredFrames frames: its frames
\* are read in slices, it is loaded, and it is deleted.
InitFrames ==
    /\ \E n \in 0..StoredFrames : StoreWith(EarlierDir(n))
    /\ InitTrainer
    /\ InitWs
    /\ InitAgent
    /\ InitApi

NextFrames ==
    \/ \E id \in StoredIds, start \in FrameArgs,
          end \in {NoneV} \cup {Some(e) : e \in FrameArgs} :
          get_episode_frames(id, start, end)
          /\ UNCHANGED <<tr_vars, ag_vars, api_vars, ws_vars>>
    \/ \E id \in StoredIds :
          load_episode(id) /\ UNCHANGED <<tr_vars, ag_vars, api_vars, ws_vars>>
    \/ \E id \in StoredIds :
          delete_episode(id) /\ UNCHANGED <<tr_vars, ag_vars, api_vars, ws_vars>>

SpecFrames == InitFrames /\ [][NextFrames]_vars

\* The agents of the registry are created, stepped, trained and deleted
\* through the endpoints.
NextStep ==
    \/ \E pos \in RequestPositions :
          create_agent(pos) /\ UNCHANGED <<rec_vars, tr_vars, ag_vars, ws_vars>>
    \/ \E id \in AgentIds, world_state \in StepWorlds, draws \in StepDraws :
          step_agent(id, world_state, draws)
          /\ UNCHANGED <<rec_vars, tr_vars, ag_vars, ws_vars>>
    \/ \E id \in AgentIds :
          train_agent(id) /\ UNCHANGED <<rec_vars, tr_vars, ag_vars, ws_vars>>
    \/ \E id \in AgentIds :
          delete_agent(id) /\ UNCHANGED <<rec_vars, tr_vars, ag_vars, ws_vars>>

SpecStep == Init /\ [][NextStep]_vars

\* The two registries under every endpoint that reads or writes them.
NextRegistry ==
    \/ \E pos \in RequestPositions :
          create_agent(pos) /\ UNCHANGED <<rec_vars, tr_vars, ag_vars, ws_vars>>
    \/ \E id \in AgentIds, draws \in StepDraws :
          step_agent(id, EmptyWorld, draws)
          /\ UNCHANGED <<rec_vars, tr_vars, ag_vars, ws_vars>>
    \/ \E id \in AgentIds :
          train_agent(id) /\ UNCHANGED <<rec_vars, tr_vars, ag_vars, ws_vars>>
    \/ \E id \in AgentIds :
          reset_agent(id) /\ UNCHANGED <<rec_vars, tr_vars, ag_vars, ws_vars>>
    \/ \E id \in AgentIds :
          get_agent(id) /\ UNCHANGED <<rec_vars, tr_vars, ag_vars, ws_vars>>
    \/ \E id \in AgentIds :
          delete_agent(id) /\ UNCHANGED <<rec_vars, tr_vars, ag_vars, ws_vars>>

SpecRegistry == Init /\ [][NextRegistry]_vars

\* One agent, stepped some number of times before, under the endpoints
\* that step, train, reset and read it; stepped counts the steps from
\* there on.
InitStepEnergy ==
    /\ InitRec
    /\ InitTrainer
    /\ InitWs
    /\ InitAgent
    /\ \E k \in EarlierSteps :
          \E pair \in {after_moves(k)} :
             /\ active_agents = [id \in AgentIds |->
                                    IF id = 1 THEN Some(pair.agent)
                                    ELSE NoneV]
             /\ agent_trainers = [id \in AgentIds |->
                                     IF id = 1 THEN Some(pair.trainer)
                                     ELSE NoneV]
             /\ trained = [id \in AgentIds |-> id = 1 /\ k >= MinBatch]
    /\ agent_uuids = 1
    /\ api_ret = ApiReturned("step_agent", 1, <<>>, NoneV, NoneV)
    /\ stepped = [id \in AgentIds |-> 0]

NextStepEnergy ==
    \/ \E id \in AgentIds, draws \in StepDraws :
          step_agent(id, EmptyWorld, draws)
          /\ UNCHANGED <<rec_vars, tr_vars, ag_vars, ws_vars>>
    \/ \E id \in AgentIds :
          train_agent(id) /\ UNCHANGED <<rec_vars, tr_vars, ag_vars, ws_vars>>
    \/ \E id \in AgentIds :
          reset_agent(id) /\ UNCHANGED <<rec_vars, tr_vars, ag_vars, ws_vars>>
    \/ \E id \in AgentIds :
          get_agent(id) /\ UNCHANGED <<rec_vars, tr_vars, ag_vars, ws_vars>>

SpecStepEnergy == InitStepEnergy /\ [][NextStepEnergy]_vars

\* The agent's own loop: decide_action, then act on the action it
\* returned, from a fresh agent that has idled through some earlier ticks.
InitLoop ==
    /\ InitRec
    /\ InitTrainer
    /\ InitWs
    /\ InitApi
    /\ \E k \in EarlierTicks :
          \E agent \in {idled(NewAgent(DefaultPosition), k)} :
             /\ position = agent.position
             /\ velocity = agent.velocity
             /\ rotation = agent.rotation
             /\ health = agent.health
             /\ energy = agent.energy
             /\ current_action = agent.current_action
             /\ emotional_state = agent.emotional_state
             /\ total_reward = agent.total_reward
             /\ episode_steps = agent.episode_steps
             /\ short_term = agent.short_term
             /\ long_term = agent.long_term
             /\ episodic = agent.episodic
    /\ capacity = DefaultCapacity
    /\ world = EmptyWorld
    /\ ag_ret = AgRet("init", NoneV, <<>>, NoneV)
    /\ mem_ret = NoneV
    /\ acts = 0
    /\ added = <<>>

NextLoop ==
    \/ /\ ag_ret.op # "decide_action"
       /\ acts < MaxTicks
       /\ \E action_type \in ActionTypes, movement \in DecideMovements :
             decide_action(<<>>, action_type, movement)
       /\ UNCHANGED <<rec_vars, tr_vars, api_vars, ws_vars>>
    \/ /\ ag_ret.op = "decide_action"
       /\ act(ag_ret.action[1], DefaultDt)
       /\ UNCHANGED <<rec_vars, tr_vars, api_vars, ws_vars>>

SpecLoop == InitLoop /\ [][NextLoop]_vars

\* The connection manager with everything interleaved at the awaits:
\* websockets connect and disconnect, single sends and broadcast calls run
\* while other broadcast calls are suspended in a send.
NextWs ==
    \/ \E websocket \in Connections, accepted \in BOOLEAN :
          connect(websocket, accepted)
          /\ UNCHANGED <<rec_vars, tr_vars, ag_vars, api_vars>>
    \/ \E websocket \in Connections :
          websocket_endpoint_disconnects(websocket)
          /\ UNCHANGED <<rec_vars, tr_vars, ag_vars, api_vars>>
    \/ \E websocket \in Connections :
          \E sent \in send_outcomes(websocket) :
             send_to_client(websocket, sent)
             /\ UNCHANGED <<rec_vars, tr_vars, ag_vars, api_vars>>
    \/ \E b \in BroadcastIds :
          broadcast(b) /\ UNCHANGED <<rec_vars, tr_vars, ag_vars, api_vars>>
    \/ \E b \in BroadcastIds :
          /\ broadcasts[b].pc = "awaiting"
          /\ \E sent \in send_outcomes(broadcasts[b].current[1]) :
                broadcast_resumes(b, sent)
          /\ UNCHANGED <<rec_vars, tr_vars, ag_vars, api_vars>>

SpecWs == Init /\ [][NextWs]_vars

\* The connection manager with each broadcast call run from its call to
\* its return before anything else happens.
NextBroadcast ==
    \/ /\ NoneAwaiting
       /\ \E websocket \in Connections, accepted \in BOOLEAN :
             connect(websocket, accepted)
       /\ UNCHANGED <<rec_vars, tr_vars, ag_vars, api_vars>>
    \/ /\ NoneAwaiting
       /\ \E websocket \in Connections :
             websocket_endpoint_disconnects(websocket)
       /\ UNCHANGED <<rec_vars, tr_vars, ag_vars, api_vars>>
    \/ /\ NoneAwaiting
       /\ \E websocket \in Connections :
             \E sent \in send_outcomes(websocket) :
                send_to_client(websocket, sent)
       /\ UNCHANGED <<rec_vars, tr_vars, ag_vars, api_vars>>
    \/ /\ NoneAwaiting
       /\ \E b \in BroadcastIds : broadcast(b)
       /\ UNCHANGED <<rec_vars, tr_vars, ag_vars, api_vars>>
    \/ \E b \in BroadcastIds :
          /\ broadcasts[b].pc = "awaiting"
          /\ \E sent \in send_outcomes(broadcasts[b].current[1]) :
                broadcast_resumes(b, sent)
          /\ UNCHANGED <<rec_vars, tr_vars, ag_vars, api_vars>>

SpecBroadcast == Init /\ [][NextBroadcast]_vars

\* ------------------------------------------------- the recorder's properties

\* Every frame of a stored file, whole or cut.
StoredTimestamps ==
    UNION {{storage[id][1].data.frames[i].timestamp :
               i \in 1..Len(storage[id][1].data.frames)} :
           id \in {e \in EpisodeIds : ~IsNone(storage[e])}}

\* The last call was an end_episode that returned its summary.
EndedOk == rec_ret.op = "end_episode" /\ rec_ret.kind = "ok"

\* The last call was an end_episode whose write failed.
EndWriteFailed == rec_ret.op = "end_episode" /\ rec_ret.kind = "OSError"

\* C1: when end_episode returns its summary, the recorder is Idle and the file
\* stored under the id that start_episode returned is a whole document whose
\* num_frames is the number K of frames logged since that start_episode, whose
\* frames are those K frames in the order logged, and whose end time read back
\* is not before its start time; the summary reports the same K.
C1_StartLogEndPersists ==
    EndedOk =>
        /\ IsNone(current_episode)
        /\ started \in EpisodeIds
        /\ ~IsNone(storage[started])
        /\ LET file == storage[started][1]
               doc == file.data
           IN /\ file.complete
              /\ doc.episode_id = started
              /\ doc.num_frames = Len(logged)
              /\ Len(doc.frames) = Len(logged)
              /\ \A i \in 1..Len(logged) : doc.frames[i].timestamp = logged[i]
              /\ ~IsNone(doc.end_time)
              /\ fromisoformat(doc.end_time[1]) >= fromisoformat(doc.start_time)
        /\ ~IsNone(rec_ret.summary)
        /\ rec_ret.summary[1].episode_id = started
        /\ rec_ret.summary[1].num_frames = Len(logged)

\* C1's case: an episode of two frames was ended, later than it was started.
C1_Witness ==
    /\ EndedOk
    /\ Len(logged) = 2
    /\ rec_ret.summary[1].duration > 0

\* C2: a log_frame call made while there is no current episode raises the
\* no-active-episode error, and leaves the recorder Idle and every stored
\* file as it was.
C2_LogFrameIdleFails ==
    [][(/\ IsNone(current_episode)
        /\ \E w \in WorldStates, events \in EventsInputs :
              log_frame(<<>>, w, events))
       => /\ rec_ret' = Raised("log_frame", "ValueError")
          /\ IsNone(current_episode')
          /\ storage' = storage]_rec_vars

\* C2's case: log_frame raised after an episode had been ended and stored.
C2_Witness ==
    /\ rec_ret = Raised("log_frame", "ValueError")
    /\ \E id \in EpisodeIds : ~IsNone(storage[id])

\* C3: an end_episode call made while there is no current episode raises the
\* no-active-episode error, writes no file, and leaves the recorder Idle.
C3_EndEpisodeIdleFails ==
    [][(IsNone(current_episode) /\ end_episode)
       => /\ rec_ret' = Raised("end_episode", "ValueError")
          /\ IsNone(current_episode')
          /\ storage' = storage]_rec_vars

\* C3's case: end_episode raised with the last episode's file stored whole,
\* as after a second end_episode.
C3_Witness ==
    /\ rec_ret = Raised("end_episode", "ValueError")
    /\ started \in EpisodeIds
    /\ ~IsNone(storage[started])
    /\ storage[started][1].complete

\* A start_episode call, direct or through POST /start.
StartStep ==
    \/ \E metadata \in MetadataInputs : start_episode(metadata)
    \/ \E request \in StartEpisodeRequests : api_start_episode(request)

\* C4: start_episode, in Idle and in Recording, leaves a current episode that
\* is new (an id of no earlier episode and of no stored file), has no frame and
\* no end time, and writes no file; no frame of an unfinalized episode that
\* start_episode replaced is ever in a stored file; and the file a later
\* end_episode writes holds only frames logged after the last start_episode.
C4_StartDiscardsUnsaved ==
    /\ [][StartStep =>
            /\ ~IsNone(current_episode')
            /\ current_episode'[1].frames = <<>>
            /\ IsNone(current_episode'[1].end_time)
            /\ current_episode'[1].episode_id > uuids
            /\ IsNone(storage[current_episode'[1].episode_id])
            /\ (~IsNone(current_episode) =>
                   current_episode'[1].episode_id # current_episode[1].episode_id)
            /\ storage' = storage]_rec_vars
    /\ [](StoredTimestamps \cap discarded = {})
    /\ [](EndedOk =>
            \A i \in 1..Len(storage[started][1].data.frames) :
               \E j \in 1..Len(logged) :
                  storage[started][1].data.frames[i].timestamp = logged[j])

\* C4's case: an episode with a frame was replaced by start_episode, and the
\* next episode, with a frame of its own, was ended and stored.
C4_Witness ==
    /\ discarded # {}
    /\ EndedOk
    /\ Len(logged) >= 1

\* C5: after an end_episode whose write failed, no summary was returned and
\* the recorder is Idle.
C5_WriteFailureLeavesIdle ==
    EndWriteFailed => (IsNone(rec_ret.summary) /\ IsNone(current_episode))

\* -------------------------------------------------- the trainer's properties

\* A store_transition call.
StoreStep ==
    \E reward \in Rewards : store_transition("obs", "act", reward, 0, 0, FALSE)

\* C6: the six lists of the buffer always have the same length, after any
\* store_transition, update (a no-op, a training step or one that raised) and
\* clear_buffer calls; and store_transition makes each list longer by one.
C6_BufferListsSameLength ==
    /\ [](\A k \in BufferKeys : Len(buffer[k]) = Len(buffer["observations"]))
    /\ [][StoreStep =>
            \A k \in BufferKeys : Len(buffer'[k]) = Len(buffer[k]) + 1]_vars

\* C6's case: transitions stored again after an update trained on a full
\* buffer and another raised.
C6_Witness ==
    /\ training_steps >= 1
    /\ params > training_steps * Epochs
    /\ Len(buffer["observations"]) >= 2
    /\ tr_ret.op = "store_transition"

\* C7: update() on fewer than MinBatch transitions returns the zero metrics
\* and leaves the buffer, the training-step counter and the parameters as they
\* were; on MinBatch transitions or more it runs the optimization passes (it
\* returns the metrics of a training step, or a pass raises).
C7_UpdateBelowThresholdNoop ==
    [][update =>
         IF Len(buffer["observations"]) < MinBatch
         THEN /\ tr_ret' = TrReturned("update", Some(ZeroMetrics))
              /\ buffer' = buffer
              /\ training_steps' = training_steps
              /\ params' = params
         ELSE \/ tr_ret'.kind = "raised"
              \/ /\ tr_ret' = TrReturned("update", Some(TrainedMetrics))
                 /\ params' = params + Epochs]_vars

\* C7's case: update() returned the zero metrics on MinBatch - 1 transitions.
C7_Witness ==
    /\ tr_ret = TrReturned("update", Some(ZeroMetrics))
    /\ Len(buffer["observations"]) = MinBatch - 1

\* C8: an update() on at least MinBatch transitions that returns leaves all
\* six lists empty and the training-step counter larger by exactly one.
C8_UpdateClearsAndCountsOnce ==
    [][(/\ update
        /\ Len(buffer["observations"]) >= MinBatch
        /\ tr_ret'.kind = "ok")
       => /\ \A k \in BufferKeys : buffer'[k] = <<>>
          /\ training_steps' = training_steps + 1]_vars

\* C8's case: a second update() trained and returned.
C8_Witness ==
    /\ tr_ret = TrReturned("update", Some(TrainedMetrics))
    /\ training_steps = 2
    /\ Len(buffer["observations"]) = 0

\* C9: an update() in which a pass raises leaves the six lists holding what
\* they held and the training-step counter where it was, whichever pass it is.
C9_UpdateRaisesKeepsBuffer ==
    [][(update /\ tr_ret'.kind = "raised")
       => /\ buffer' = buffer
          /\ training_steps' = training_steps]_vars

\* C9's case: the last pass raised, after three optimizer steps, on a buffer
\* of at least MinBatch transitions.
C9_Witness ==
    /\ tr_ret = TrRaised("update", Epochs)
    /\ params >= Epochs - 1
    /\ Len(buffer["observations"]) >= MinBatch
    /\ \E i \in 1..Len(buffer["rewards"]) : buffer["rewards"][i] = 1

\* The first index from t on whose done flag is set, or the last index.
FirstDone(dones, t) ==
    IF \E d \in t..Len(dones) : dones[d]
    THEN CHOOSE d \in t..Len(dones) :
            dones[d] /\ \A e \in t..(d - 1) : ~dones[e]
    ELSE Len(dones)

\* The sum over k in from..last of gamma^(k-t) * rewards[k], times
\* GammaDen^(last-t).
RECURSIVE DiscountedSum(_, _, _, _)
DiscountedSum(rewards, t, from, last) ==
    IF from > last THEN 0
    ELSE rewards[from] * Pow(GammaNum, from - t) * Pow(GammaDen, last - from)
         + DiscountedSum(rewards, t, from + 1, last)

\* The discounted sum of the rewards from t up to and including the first
\* done entry from t on, or up to the end of the buffer.
DiscountedReturn(rewards, dones, t) ==
    LET last == FirstDone(dones, t)
    IN Canon(<<DiscountedSum(rewards, t, t, last), last - t>>)

\* C10: compute_returns, before it normalizes, has one return for every stored
\* transition, in the order stored, and the return at t is the discounted sum
\* of the rewards from t up to and including the first done entry from t on
\* (to the end of the buffer when there is none).
C10_ReturnsResetAtDone ==
    [][compute_returns =>
         /\ Len(returns') = Len(buffer["rewards"])
         /\ \A t \in 1..Len(buffer["rewards"]) :
               returns'[t] =
                  DiscountedReturn(buffer["rewards"], buffer["dones"], t)]_vars

\* C10's case: returns computed on three transitions with the episode's end
\* in the middle and a reward after it, and the first return leaves it out.
C10_Witness ==
    /\ tr_ret.op = "compute_returns"
    /\ Len(returns) = 3
    /\ buffer["dones"] = <<FALSE, TRUE, FALSE>>
    /\ buffer["rewards"] = <<2, 2, 2>>
    /\ returns[3] = <<2, 0>>
    /\ returns[2] = <<2, 0>>
    /\ returns[1] = <<398, 1>>

\* ----------------------------------------------- checkpoints, select_action

\* C11: a load_checkpoint that raises leaves the network's parameters, the
\* optimizer's state and the training-step counter all as they were before
\* the call, and one that returns has set all three to what the file holds;
\* save_checkpoint wrote the three it had.
C11_LoadAllOrNothing ==
    [][\A path \in Paths :
          load_checkpoint(path) =>
             IF tr_ret'.kind = "raised"
             THEN UNCHANGED <<params, opt_state, training_steps>>
             ELSE LET file == checkpoints[path][1]
                  IN /\ params' = file.network_state[1].value
                     /\ opt_state' = file.optimizer_state[1].value
                     /\ training_steps' = file.training_steps[1]]_vars

\* A step of select_action: the one call that returns under that name.
SelectStep == tr_ret'.op = "select_action"

\* C12: select_action leaves the buffer, the training-step counter and the
\* network's parameters (and the optimizer's state) as they were, and every
\* component of the action it returns is between -1 and 1.
C12_SelectActionReadOnlyClipped ==
    [][SelectStep
       => /\ UNCHANGED <<buffer, training_steps, params, opt_state>>
          /\ \A i \in 1..ActionDim :
                /\ selected'[1].action[i] >= -ClipLimit
                /\ selected'[1].action[i] <= ClipLimit]_vars

\* C12's case: select_action has returned, on a trainer with transitions in
\* its buffer, an action that the clipping cut at both limits.
C12_Witness ==
    /\ tr_ret.op = "select_action"
    /\ Len(buffer["observations"]) > 0
    /\ selected[1].action[1] = ClipLimit
    /\ selected[1].action[2] = -ClipLimit

\* ------------------------------------------------------ the agent's properties

\* C13: perceive returns a vector of exactly 29 scalars, the 9 features of
\* the agent itself followed by 20 object features, for every world
\* snapshot: with no objects key, with no objects, with fewer or more than 5
\* objects, whichever of them have a position or lie inside the radius.
C13_PerceiveLength ==
    ag_ret.op = "perceive"
    => /\ Len(ag_ret.observation) = ObservationDim
       /\ SubSeq(ag_ret.observation, 1, SelfFeatures)
            = position \o velocity \o <<rotation, health, energy>>
       /\ Len(SubSeq(ag_ret.observation, SelfFeatures + 1,
                     Len(ag_ret.observation))) = ObjectFeatures

\* C13's case: perceive has returned on a snapshot of more than 5 objects,
\* some without a position, some inside the radius, some not.
C13_Witness ==
    /\ ag_ret.op = "perceive"
    /\ ~IsNone(world.objects)
    /\ Len(world.objects[1]) > ObjectsSeen
    /\ \A kind \in ObjectKinds :
          \E i \in 1..ObjectsSeen : world.objects[1][i] = kind

\* C14: after any sequence of decide_action, act and reset calls on a fresh
\* agent, energy and health are both between 0 and 100.
C14_EnergyHealthInRange ==
    /\ energy >= 0
    /\ energy <= FullEnergy
    /\ health >= 0
    /\ health <= FullHealth

\* C14's case: the agent has rested with its energy at the cap, after
\* decide_action calls and a move.
C14_Witness ==
    /\ ag_ret.op = "act"
    /\ current_action = "resting"
    /\ energy = FullEnergy
    /\ episode_steps = 2
    /\ position # DefaultPosition

\* A step of decide_action: the one call that returns under that name.
DecideStep == ag_ret'.op = "decide_action"

\* C15: decide_action first lowers energy by 0.1, not below 0, and then
\* returns the rest action when the lowered energy is below 20 (so also when
\* the energy was below 20 before), whatever it draws; it returns a move, an
\* interaction or an idle action only when the lowered energy is at least 20.
C15_DecideRestsWhenLow ==
    [][DecideStep
       => /\ energy' = IF energy - DecideDrain < 0 THEN 0
                       ELSE energy - DecideDrain
          /\ energy' < LowEnergy
               => ag_ret'.action
                    = Some([type |-> "rest", movement |-> <<0, 0, 0>>,
                            name |-> Some("resting")])
          /\ energy < LowEnergy => ag_ret'.action[1].type = "rest"
          /\ energy' >= LowEnergy
               => ag_ret'.action[1].type \in {"move", "interact", "idle"}
          /\ ag_ret'.action[1].type # "rest" => energy' >= LowEnergy]_vars

\* C15's case: decide_action has lowered an energy of exactly 20 to 19.9 and
\* returned the rest action.
C15_Witness ==
    /\ ag_ret.op = "decide_action"
    /\ energy = LowEnergy - DecideDrain
    /\ ag_ret.action = Some(RestAction)

\* C16: act changes energy by -0.2 for a move and -0.5 for an interaction,
\* both not below 0, by +1.0 for a rest, not above 100, and not at all for
\* idle; a rest and an interaction set the velocity to zero, a move sets it
\* to the movement and advances the position by velocity * dt, and idle
\* leaves position, velocity and rotation as they were.
C16_ActEffects ==
    [][\A action \in ActInputs :
          act(action, DefaultDt) =>
             CASE action.type = "move" ->
                    /\ energy' = IF energy < MoveCost THEN 0
                                 ELSE energy - MoveCost
                    /\ velocity' = action.movement
                    /\ \A i \in 1..3 :
                          1000 * (position'[i] - position[i])
                            = velocity'[i] * DefaultDt
               [] action.type = "interact" ->
                    /\ energy' = IF energy < InteractCost THEN 0
                                 ELSE energy - InteractCost
                    /\ velocity' = <<0, 0, 0>>
               [] action.type = "rest" ->
                    /\ energy' = IF energy + RestGain > FullEnergy
                                 THEN FullEnergy ELSE energy + RestGain
                    /\ velocity' = <<0, 0, 0>>
               [] action.type = "idle" ->
                    UNCHANGED <<energy, position, velocity, rotation>>]_vars

\* C16's case: an interaction after a move has brought the energy to the
\* floor and the velocity to zero, at the position the move led to.
C16_Witness ==
    /\ ag_ret.op = "act"
    /\ current_action = "interacting"
    /\ energy = 0
    /\ velocity = ZeroVector
    /\ position # DefaultPosition
    /\ episode_steps = 2

\* C17: every act call adds exactly 1 to the step counter, whatever the kind
\* of action, so the counter is the number of act calls since the agent was
\* made or last reset.
C17_StepsCountActs == episode_steps = acts

\* C17's case: the third act call since a reset, an idle one.
C17_Witness ==
    /\ ag_ret.op = "act"
    /\ current_action = "idle"
    /\ acts = MaxSteps + 1
    /\ position[1] >= Boundary

\* C18: calculate_reward returns +0.1, less 0.5 if energy is below 20, less
\* 0.05 if the action label is idle, plus 0.3 if it is interacting, less 1.0
\* if the distance from the origin in x and z is above 10; it adds what it
\* returns to total_reward and changes nothing else of the agent.
C18_RewardTerms ==
    [][calculate_reward(world) =>
         LET low == IF energy < LowEnergy THEN -LowEnergyPenalty ELSE 0
             idle == IF current_action = "idle" THEN -IdlePenalty ELSE 0
             interacting == IF current_action = "interacting"
                            THEN InteractReward ELSE 0
             outside == IF position[1] * position[1]
                             + position[3] * position[3]
                             > Boundary * Boundary
                        THEN -BoundsPenalty ELSE 0
             reward == AliveReward + low + idle + interacting + outside
         IN /\ ag_ret'.reward = Some(reward)
            /\ total_reward' = total_reward + reward
            /\ UNCHANGED <<body_vars, health, energy, current_action,
                           emotional_state, episode_steps, mem_vars>>]_vars

\* C18's case: an agent at [11, 0.5, 0], interacting and low on energy,
\* has been given 0.1 - 0.5 + 0.3 - 1.0 on top of what it had.
C18_Witness ==
    /\ ag_ret.op = "calculate_reward"
    /\ position = <<11000, 500, 0>>
    /\ current_action = "interacting"
    /\ energy < LowEnergy
    /\ ag_ret.reward = Some(-110)
    /\ total_reward # -110

\* ----------------------------------------------------- the memory's properties

\* The last k entries of a sequence.
Last(seq, k) == SubSeq(seq, Len(seq) - k + 1, Len(seq))

\* C19: after any sequence of add_experience calls, short_term holds at most
\* 100 entries and long_term at most its capacity; short_term is the last
\* min(100, total) experiences added and long_term the last
\* min(capacity, total), in the order they were added, so each call put the
\* same experience at the end of both and each drops its oldest on its own.
C19_MemoryBounded ==
    /\ Len(short_term) <= ShortTermMax
    /\ Len(long_term) <= capacity
    /\ short_term = Last(added, Min(ShortTermMax, Len(added)))
    /\ long_term = Last(added, Min(capacity, Len(added)))

\* C19's case: more than 100 experiences added to a memory of a small
\* capacity: both buffers are full and have dropped entries, each its own.
C19_Witness ==
    /\ Len(added) > ShortTermMax
    /\ Len(short_term) = ShortTermMax
    /\ capacity = SmallCapacity
    /\ Len(long_term) = SmallCapacity

\* C20: for every n >= 0 and every short-term history of s entries,
\* get_recent(n) returns exactly min(n, s) entries, the n most recently
\* added, oldest first, and never more than n.
C20_GetRecentAtMostN ==
    [][\A n \in RecentArgs :
          get_recent(n) =>
             /\ mem_ret'[1].recent
                  = Last(short_term, Min(n, Len(short_term)))
             /\ Len(mem_ret'[1].recent) <= n]_vars

\* ------------------------------------------------- reset, emotional state

\* C21: reset puts velocity, rotation, health, energy, the current action,
\* the emotional state, the cumulative reward and the step count back to
\* their first values, sets the position to the one given or else to the
\* default one, empties the episodic list, and leaves the short-term and
\* the long-term buffer exactly as they were.
C21_ResetEffects ==
    [][\A pos \in ResetPositions :
          reset(pos) =>
             /\ velocity' = <<0, 0, 0>>
             /\ rotation' = 0
             /\ health' = FullHealth
             /\ energy' = FullEnergy
             /\ current_action' = "idle"
             /\ emotional_state' = "neutral"
             /\ total_reward' = 0
             /\ episode_steps' = 0
             /\ position' = IF IsNone(pos) THEN <<0, 500, 0>> ELSE pos[1]
             /\ episodic' = <<>>
             /\ short_term' = short_term
             /\ long_term' = long_term]_vars

\* A reset of an agent that had remembered experiences and events.
C21_Witness ==
    /\ ag_ret.op = "reset"
    /\ position = <<Boundary, 500, 0>>
    /\ Len(short_term) = MaxEvents
    /\ long_term = short_term
    /\ episodic = <<>>
    /\ energy = FullEnergy

\* The mean of the rewards of recent is above bound hundredths.
MeanAbove(recent, bound) == sum_rewards(recent) > bound * Len(recent)

\* The mean of the rewards of recent is below bound hundredths.
MeanBelow(recent, bound) == sum_rewards(recent) < bound * Len(recent)

\* C22: update_emotional_state sets the label from the mean reward of the
\* most recent min(10, size) short-term experiences: happy above 0.2,
\* frustrated below -0.2, neutral otherwise (at 0.2 and -0.2 exactly too)
\* and when the buffer is empty; the label is always one of the three.
C22_EmotionFromMean ==
    [][update_emotional_state =>
          LET recent == Last(short_term, Min(10, Len(short_term)))
          IN /\ emotional_state' \in {"happy", "neutral", "frustrated"}
             /\ emotional_state' = "happy" <=>
                   recent # <<>> /\ MeanAbove(recent, 20)
             /\ emotional_state' = "frustrated" <=>
                   recent # <<>> /\ MeanBelow(recent, -20)]_vars

\* An update that found a mean of exactly 0.2 over the last ten of eleven
\* experiences, the mean of all eleven being above 0.2.
C22_Witness ==
    /\ ag_ret.op = "update_emotional_state"
    /\ Len(short_term) = RecentWindow + 1
    /\ short_term[1].reward = 40
    /\ \A i \in 2..Len(short_term) : short_term[i].reward = 20
    /\ emotional_state = "neutral"

\* ------------------------------------------------------ object features

\* The objects of the snapshot the agent last perceived.
PerceivedObjects == GetOr(world.objects, <<>>)

\* The indices, among the first 5, of the objects that have a position
\* less than the observation radius away from the agent.
Visible ==
    {i \in 1..Min(5, Len(PerceivedObjects)) :
        /\ ~IsNone(PerceivedObjects[i].position)
        /\ Norm2(Sub(PerceivedObjects[i].position[1], position))
              < ObservationRadius * ObservationRadius}

\* The number of visible objects listed before the i-th.
VisibleBefore(i) == Cardinality({j \in Visible : j < i})

StoredFramesOf(id) == storage[id][1].data.frames

\* C23: for a persisted episode of N frames and 0 <= start <= end <= N,
\* get_episode_frames(id, start, end) returns exactly the frames of indices
\* start to end - 1 in their order, with end left out the frames from
\* start to N - 1, and the persisted record is not modified.
C23_FramesSlice ==
    [][rec_ret'.op = "get_episode_frames" =>
          LET id == rec_ret'.args[1]
              start == rec_ret'.args[2]
              end == rec_ret'.args[3]
          IN (/\ ~IsNone(storage[id])
              /\ storage[id][1].complete
              /\ LET e == IF IsNone(end) THEN Len(StoredFramesOf(id))
                          ELSE end[1]
                 IN 0 <= start /\ start <= e /\ e <= Len(StoredFramesOf(id)))
             => LET e == IF IsNone(end) THEN Len(StoredFramesOf(id))
                         ELSE end[1]
                IN /\ rec_ret'.kind = "ok"
                   /\ rec_ret'.data =
                         [k \in 1..(e - start) |-> StoredFramesOf(id)[start + k]]
                   /\ storage' = storage]_vars

\* get_episode_frames has returned the two frames of indices 1 and 2 of an
\* episode of 4 frames.
C23_Witness ==
    /\ rec_ret.op = "get_episode_frames"
    /\ rec_ret.kind = "ok"
    /\ ~IsNone(storage[EarlierId])
    /\ Len(StoredFramesOf(EarlierId)) = 4
    /\ rec_ret.args = <<EarlierId, 1, Some(3)>>
    /\ rec_ret.data = SubSeq(StoredFramesOf(EarlierId), 2, 3)

\* The ids of the files that json.load reads.
Readable == {id \in DOMAIN storage :
                ~IsNone(storage[id]) /\ storage[id][1].complete}

\* C25: list_episodes returns exactly one summary entry for every persisted
\* record that parses and none for a record that does not, does not fail
\* when a record is corrupt, and orders the entries by start time, newest
\* first.
C25_ListSkipsCorrupt ==
    rec_ret.op = "list_episodes"
    => /\ rec_ret.kind = "ok"
       /\ Len(rec_ret.data) = Cardinality(Readable)
       /\ \A id \in Readable :
             \E i \in DOMAIN rec_ret.data :
                LET doc == storage[id][1].data
                IN rec_ret.data[i] =
                      [episode_id |-> id, metadata |-> doc.metadata,
                       start_time |-> doc.start_time,
                       end_time |-> doc.end_time,
                       num_frames |-> doc.num_frames]
       /\ \A i, j \in DOMAIN rec_ret.data :
             i < j => fromisoformat(rec_ret.data[i].start_time)
                         >= fromisoformat(rec_ret.data[j].start_time)

\* list_episodes has returned two entries of different start times from a
\* storage_dir of three files, one of them cut part-way.
C25_Witness ==
    /\ rec_ret.op = "list_episodes"
    /\ Len(rec_ret.data) = 2
    /\ rec_ret.data[1].start_time # rec_ret.data[2].start_time
    /\ \E id \in DOMAIN storage :
          ~IsNone(storage[id]) /\ ~storage[id][1].complete

\* C28: load_episode and get_episode_frames for an id with no persisted
\* record (never ended, still being recorded, discarded or deleted) fail
\* with not-found and change neither the store nor the slot.
C28_ReadAbsentNotFound ==
    [][(/\ rec_ret'.op \in {"load_episode", "get_episode_frames"}
        /\ IsNone(storage[rec_ret'.args[1]]))
       => /\ rec_ret'.kind = "FileNotFoundError"
          /\ storage' = storage
          /\ current_episode' = current_episode]_vars

\* get_episode_frames has failed with not-found for the id of the episode
\* in the slot, which has a frame, after an earlier episode was discarded.
C28_Witness ==
    /\ rec_ret.op = "get_episode_frames"
    /\ rec_ret.kind = "FileNotFoundError"
    /\ ~IsNone(current_episode)
    /\ rec_ret.args[1] = current_episode[1].episode_id
    /\ current_episode[1].frames # <<>>
    /\ discarded # {}

\* C24: delete_episode is idempotent: deleting an absent id does not fail
\* and changes nothing, deleting an existing id removes exactly that record
\* and no other, so deleting twice is deleting once; the episode being
\* recorded is never affected.
C24_DeleteIdempotent ==
    [][rec_ret'.op = "delete_episode" =>
          \A id \in StoredIds :
             delete_episode(id) =>
                /\ rec_ret'.kind = "ok"
                /\ IsNone(storage'[id])
                /\ \A other \in StoredIds \ {id} :
                      storage'[other] = storage[other]
                /\ IsNone(storage[id]) => storage' = storage
                /\ current_episode' = current_episode]_vars

\* delete_episode(1) has returned with no record under 1 left, the record
\* of the earlier episode in place, and the second episode being recorded.
C24_Witness ==
    /\ rec_ret.op = "delete_episode"
    /\ rec_ret.args = <<1>>
    /\ started = 2
    /\ ~IsNone(current_episode)
    /\ IsNone(storage[1])
    /\ ~IsNone(storage[EarlierId])

\* C26: in every reachable state, also after an end_episode whose write
\* failed or stopped part-way, the document stored under an id is either
\* absent or a complete record; no partly written document is there for
\* load_episode or list_episodes to meet.
C26_NoPartialDocument ==
    \A id \in DOMAIN storage :
       IsNone(storage[id]) \/ storage[id][1].complete

\* C27: in every state reached by start_episode, log_frame and end_episode,
\* failed writes included, the episode in the slot has no end timestamp.
C27_SlotNotFinalized ==
    IsNone(current_episode) \/ IsNone(current_episode[1].end_time)

\* ------------------------------------------------------------- step_agent

\* A step_agent call has returned.
StepReturned == api_ret'.op = "step_agent" /\ api_ret'.kind = "ok"

\* C30: a step_agent call that returns for an agent with a trainer has run
\* perceive, select_action, act and calculate_reward in that order (the
\* observation is of the agent before it acted, the action is the one
\* selected, the reward is of the agent after it acted), has appended
\* exactly one transition, with done false, to that trainer's buffer and
\* exactly one experience to that agent's memory; when no train call was
\* made the buffer is as long as the number of steps that returned; and no
\* other agent's state, memory or trainer has changed.
C30_StepAppendsOne ==
    [][StepReturned =>
          LET id == api_ret'.agent_id
              before == active_agents[id][1]
              after == active_agents'[id][1]
              buf == agent_trainers[id][1].buffer
              buf_after == agent_trainers'[id][1].buffer
              n == Len(buf["observations"])
              seen == observe(before.position, before.velocity,
                              before.rotation, before.health, before.energy,
                              api_ret'.world_state[1])
              reward == reward_of(after.energy, after.current_action,
                                  after.position)
          IN /\ \A k \in BufferKeys :
                   Len(buf_after[k]) = n + 1 /\ SubSeq(buf_after[k], 1, n) = buf[k]
             /\ buf_after["dones"][n + 1] = FALSE
             /\ buf_after["observations"][n + 1] = seen
             /\ buf_after["actions"][n + 1] = api_ret'.action_vector
             /\ buf_after["rewards"][n + 1] = reward
             /\ api_ret'.reward = Some(reward)
             /\ after.episode_steps = before.episode_steps + 1
             /\ after.current_action =
                   (IF is_move(api_ret'.action_vector) THEN "moving"
                    ELSE "idle")
             /\ after.total_reward = before.total_reward + reward
             /\ Len(after.short_term) = Len(before.short_term) + 1
             /\ Len(after.long_term) = Len(before.long_term) + 1
             /\ after.short_term[Len(after.short_term)].observation = seen
             /\ after.short_term[Len(after.short_term)].reward = reward
             /\ after.long_term[Len(after.long_term)]
                   = after.short_term[Len(after.short_term)]
             /\ ~trained'[id] => Len(buf_after["observations"]) = stepped'[id]
             /\ \A other \in AgentIds \ {id} :
                   /\ active_agents'[other] = active_agents[other]
                   /\ agent_trainers'[other] = agent_trainers[other]]_vars

\* The second agent has made its first step, a move that took it across
\* the boundary past an object in sight, next to a first agent that had
\* made a step of its own.
C30_Witness ==
    /\ api_ret.op = "step_agent"
    /\ api_ret.kind = "ok"
    /\ api_ret.agent_id = 2
    /\ is_move(api_ret.action_vector)
    /\ api_ret.world_state # Some(EmptyWorld)
    /\ ~IsNone(active_agents[1])
    /\ Len(active_agents[1][1].short_term) = 1
    /\ Len(agent_trainers[1][1].buffer["rewards"]) = 1
    /\ Len(agent_trainers[2][1].buffer["rewards"]) = 1
    /\ out_of_bounds(active_agents[2][1].position)

\* ------------------------------------------------------------ the registries

\* The ids registered in a registry.
Registered(registry) == {id \in DOMAIN registry : ~IsNone(registry[id])}

\* The endpoints that look an agent up by its id.
LooksUp == {"step_agent", "train_agent", "reset_agent", "get_agent",
            "delete_agent"}

\* C31: after any sequence of create_agent, delete_agent, step_agent,
\* train_agent and reset_agent calls the ids that have an agent are the
\* ids that have a trainer; and step, train, reset, get and delete on an
\* id that was never created or was deleted fail with not-found and change
\* neither registry.
C31_RegistriesPaired ==
    /\ [](Registered(active_agents) = Registered(agent_trainers))
    /\ [][(/\ api_ret'.op \in LooksUp
           /\ IsNone(active_agents[api_ret'.agent_id]))
          => /\ api_ret'.kind = "404"
             /\ active_agents' = active_agents
             /\ agent_trainers' = agent_trainers]_vars

\* step_agent has failed with not-found for the id of an agent that was
\* created and deleted, next to a second agent that is registered with its
\* trainer and has made a step.
C31_Witness ==
    /\ api_ret.op = "step_agent"
    /\ api_ret.kind = "404"
    /\ api_ret.agent_id = 1
    /\ agent_uuids = 2
    /\ Registered(active_agents) = {2}
    /\ Registered(agent_trainers) = {2}
    /\ stepped[2] = 1

\* ------------------------------------------- energy under the step endpoint

\* C35: an agent made by create_agent has a trainer, so a step_agent call
\* takes its action from the trainer and never from decide_action: the
\* energy is not drained by a decision, the action is a move or an idle, the
\* energy after the step is the energy before it or that less a move's
\* cost, and the one endpoint that raises an agent's energy is reset_agent.
C35_StepNeverRaisesEnergy ==
    [][\A id \in AgentIds :
          (~IsNone(active_agents[id]) /\ ~IsNone(active_agents'[id])) =>
             LET before == active_agents[id][1]
                 after == active_agents'[id][1]
             IN /\ after.energy > before.energy =>
                      (api_ret'.op = "reset_agent" /\ api_ret'.agent_id = id)
                /\ stepped'[id] = stepped[id] + 1 =>
                      /\ ~IsNone(agent_trainers[id])
                      /\ after.current_action \in {"moving", "idle"}
                      /\ after.energy \in
                            {before.energy, Max(0, before.energy - MoveCost)}]_vars

\* Two steps have moved an agent whose energy was already under the level
\* at which decide_action rests, and have drained it further.
C35_Witness ==
    /\ api_ret.op = "step_agent"
    /\ api_ret.kind = "ok"
    /\ stepped[1] = MaxApiSteps
    /\ active_agents[1][1].current_action = "moving"
    /\ active_agents[1][1].energy > 0
    /\ active_agents[1][1].energy + MaxApiSteps * MoveCost < LowEnergy

\* ------------------------------------------------------ the agent's own loop

\* C34: in the loop of decide_action followed by act on the returned
\* action, from energy 100, the energy never falls below 19.4 (the rest
\* level less one decision's drain and one interaction's cost); when the
\* energy is under the rest level after an act, the next decide_action
\* returns a rest, and the act on it leaves the energy higher than it was
\* before that decision.
C34_LoopKeepsEnergy ==
    /\ energy >= LowEnergy - DecideDrain - InteractCost
    /\ [][/\ energy' >= LowEnergy - DecideDrain - InteractCost
          /\ (ag_ret.op \in {"init", "act"} /\ energy < LowEnergy) =>
                /\ ag_ret'.op = "decide_action"
                /\ ag_ret'.action[1] = RestAction
                /\ energy' = energy - DecideDrain
          /\ (ag_ret.op = "decide_action" /\ ag_ret.action[1] = RestAction) =>
                /\ ag_ret'.op = "act"
                /\ current_action' = "resting"
                /\ energy' > energy + DecideDrain]_vars

\* The loop has reached the lowest energy (an interaction taken at the rest
\* level, then a decision's drain) and the rest that followed has raised it.
C34_Witness ==
    /\ ag_ret.op = "act"
    /\ current_action = "resting"
    /\ acts = MaxTicks
    /\ energy = LowEnergy - DecideDrain - InteractCost + RestGain

\* ---------------------------------------------------- the connection manager

C33_OneAttemptEach ==
    \A b \in BroadcastIds :
       broadcasts[b].pc = "returned" =>
          \A c \in broadcasts[b].at_call \cap Elements(active_connections) :
             count(broadcasts[b].attempts, c) = 1

=============================================================================
